---- MODULE Spec2Model ----
(***************************************************************************)
(* Collaborative JSON editor: the relay server (server.mjs), the client's  *)
(* synchronisation logic and the JSON <-> graph transform (src/App.tsx).   *)
(*                                                                         *)
(*   Spec      the server's event handlers, driven by arbitrary events     *)
(*             (the server is the trust boundary: payloads may be          *)
(*             missing or ill-typed).                                      *)
(*   SpecRelay the server's signalling relay handlers, sockets coming and  *)
(*             going.                                                      *)
(*   SpecPresence members joining, leaving and updating their records.     *)
(*   SpecEvents every handler of the server, presence and voice included.  *)
(*   SpecIsolation two workspaces on one server and the rooms of socket.io.*)
(*   SpecRT    one pass of a parsed document through generateGraph and     *)
(*             buildJson, for every document of a bounded family.          *)
(*   SpecSync  the clients' handlers, effects and timers, the server and   *)
(*             the FIFO channels between them.                             *)
(*   SpecQuiesce the clients mounting and one edit of the text, with the   *)
(*             timers firing and the packets handled in the end.           *)
(*   SpecGraph buildJson on the graphs a user can draw.                    *)
(*   SpecVoice the clients' voice handlers, their peer connections and the *)
(*             server's signalling relay.                                  *)
(*   SpecTeardown the end of a peer, for a client with several peers.      *)
(*   SpecCancel the microphone request and the socket effect's cleanup.    *)
(*   SpecEdit  the canvas gestures and remote deltas on a generated graph. *)
(*   SpecInbound the client's socket handlers on missing, foreign and own  *)
(*             payloads.                                                   *)
(***************************************************************************)
EXTENDS Integers, Sequences, FiniteSets, TLC

VARIABLES
    ws,     \* the WorkspaceState of the one workspace modelled (server.mjs:42-51)
    ev,     \* the server event handled by the last step (observation of the input)
    out,    \* the messages that handler emitted, in emission order
    rtIn,   \* SpecRT: the parsed JSON document given to generateGraph
    rtGraph,\* SpecRT: the nodes and edges generateGraph returned
    rtOut,  \* SpecRT: the value buildJson returned for that graph
    rtPc,   \* SpecRT: "parsed", "graph" or "built"
    cli,    \* SpecSync: per client, the state of its App/Flow components
    toSrv,  \* SpecSync: per client, the packets under way to the server (FIFO)
    toCli,  \* SpecSync: per client, the packets under way from the server (FIFO)
    edits,  \* SpecSync: the number of user gestures made so far
    vc,     \* SpecVoice: per client, its voice refs and peer connections
    vToSrv, \* SpecVoice: per client, the signalling packets under way to the server
    vToCli, \* SpecVoice: per client, the signalling packets under way from the server
    vops    \* SpecVoice: the number of voice gestures made so far

srvVars == <<ws, ev, out>>
rtVars == <<rtIn, rtGraph, rtOut, rtPc>>
syncVars == <<cli, toSrv, toCli, edits>>
voiceVars == <<vc, vToSrv, vToCli, vops>>
vars == <<ws, ev, out, rtIn, rtGraph, rtOut, rtPc, cli, toSrv, toCli, edits,
          vc, vToSrv, vToCli, vops>>

(***************************************************************************)
(* Bounds                                                                  *)
(***************************************************************************)
NumSessions == 3
\* most items of a generated array, most members of a generated object
MaxWidth == 2
\* SpecSync: the clients, the user gestures of one run, the packets one
\* channel holds
NumClients == 2
MaxEdits == 2
MaxInFlight == 3

(***************************************************************************)
(* JavaScript values, tagged with what typeof / Array.isArray /            *)
(* Number.isFinite see.                                                    *)
(***************************************************************************)
Undef == [ty |-> "undefined", val |-> "undefined"]
JStr(s) == [ty |-> "string", val |-> s]
JArr(a) == [ty |-> "array", val |-> a]
JBool(b) == [ty |-> "boolean", val |-> b]
JNum(n) == [ty |-> "number", val |-> n]
JNaN == [ty |-> "NaN", val |-> "NaN"]

\* data == null ? void 0 : data.f
Get(data, f) == IF f \in DOMAIN data THEN data[f] ELSE Undef

Null == 0
DEFAULT_EDITOR_WIDTH == 420
Sessions == 1..NumSessions

DocFields == {"jsonText", "nodes", "edges"}
UiFields == {"isFullScreen", "editorWidth"}
StateFields == DocFields \cup UiFields

createWorkspaceState ==
    [ jsonText |-> JStr(""),
      nodes |-> JArr(<<>>),
      edges |-> JArr(<<>>),
      isFullScreen |-> JBool(FALSE),
      editorWidth |-> JNum(DEFAULT_EDITOR_WIDTH),
      connectedUsers |-> <<>>,
      ownerSocketId |-> Null,
      allowCollaboratorEdits |-> FALSE ]

(***************************************************************************)
(* connectedUsers is a JavaScript Map: a sequence of records in insertion  *)
(* order, keys (ids) distinct.  Map.set on a present key keeps its place.  *)
(***************************************************************************)
MemberIds(w) == {w.connectedUsers[i].id : i \in DOMAIN w.connectedUsers}
MapHas(users, id) == \E i \in DOMAIN users : users[i].id = id
\* a map that moves an updated key to the end
MapSetReinsert(users, u) == Append(SelectSeq(users, LAMBDA v : v.id # u.id), u)
MapSet(users, u) ==
    IF MapHas(users, u.id)
    THEN [i \in DOMAIN users |-> IF users[i].id = u.id THEN u ELSE users[i]]
    ELSE Append(users, u)
MapDelete(users, id) == SelectSeq(users, LAMBDA u : u.id # id)
\* connectedUsers.keys().next().value ?? null
FirstKey(users) == IF Len(users) = 0 THEN Null ELSE users[1].id
getOnlineUsers(w) == w.connectedUsers

\* canEdit as computed in getPermissionsPayload and in the state-change handler
\* a gate that lets every member edit
CanEditAlways(w, socketId) == TRUE
\* a gate that forgets allowCollaboratorEdits
CanEditOwnerOnly(w, socketId) == socketId = w.ownerSocketId
CanEdit(w, socketId) ==
    socketId = w.ownerSocketId \/ w.allowCollaboratorEdits

getPermissionsPayload(w, socketId) ==
    [ ownerUserId |-> w.ownerSocketId,
      allowCollaboratorEdits |-> w.allowCollaboratorEdits,
      canEdit |-> CanEdit(w, socketId) ]

(***************************************************************************)
(* Emission.  io.to(room) reaches every socket in the room, socket.to(room)*)
(* every one but the sender, socket.emit the sender alone.  The room of    *)
(* the workspace holds exactly the connected sockets: a socket joins in    *)
(* the connection handler and has left when "disconnect" is handled.       *)
(***************************************************************************)
Msg(type, to, payload) == [type |-> type, to |-> to, payload |-> payload]
\* socket.io rooms share one name space: a socket is in the room named by
\* its own id from the start, and socket.join(workspaceId) puts it in the
\* room named by the workspace.  Where several workspaces are modelled the
\* state handed to a handler carries the adapter's view: guests, the sockets
\* in the workspace's room that are not its members, and joined, for a
\* socket id the sockets that joined a workspace of that name.
Guests(w) == IF "adapter" \in DOMAIN w THEN w.adapter.guests ELSE <<>>
JoinedRoomOf(w, id) ==
    IF "adapter" \in DOMAIN w /\ id \in DOMAIN w.adapter.joined
    THEN w.adapter.joined[id] ELSE <<>>
RoomSeq(w) == [i \in DOMAIN w.connectedUsers |-> w.connectedUsers[i].id] \o Guests(w)
IoToRoom(w, type, payload) ==
    [i \in DOMAIN RoomSeq(w) |-> Msg(type, RoomSeq(w)[i], payload)]
SocketEmit(sid, type, payload) == <<Msg(type, sid, payload)>>

(***************************************************************************)
(* io.on("connection")                                                     *)
(***************************************************************************)
\* ownership taken by every joiner
OwnerOnJoinAlways(w, sid) == sid
\* if (!workspace.ownerSocketId) workspace.ownerSocketId = socket.id
OwnerOnJoin(w, sid) == IF w.ownerSocketId = Null THEN sid ELSE w.ownerSocketId

SrvConnection(w, sid) ==
    LET w1 == [w EXCEPT !.ownerSocketId = OwnerOnJoin(w, sid)]
        w2 == [w1 EXCEPT !.connectedUsers =
                  MapSet(@, [id |-> sid, name |-> "User", color |-> "#64748b"])]
    IN  [ ws |-> w2,
          out |-> IoToRoom(w2, "online-users", [users |-> getOnlineUsers(w2)])
                  \o SocketEmit(sid, "init-state",
                        [ jsonText |-> w2.jsonText,
                          nodes |-> w2.nodes,
                          edges |-> w2.edges,
                          isFullScreen |-> w2.isFullScreen,
                          editorWidth |-> w2.editorWidth,
                          onlineUsers |-> getOnlineUsers(w2),
                          permissions |-> getPermissionsPayload(w2, sid) ]) ]

(***************************************************************************)
(* socket.on("set-edit-access")                                            *)
(***************************************************************************)
PermissionsMsg(w) ==
    [ ownerUserId |-> w.ownerSocketId,
      allowCollaboratorEdits |-> w.allowCollaboratorEdits ]

\* the handler without its owner test
SetEditAccessAnyMember(w, sid, data) ==
    Get(data, "allowCollaboratorEdits").ty = "boolean"
\* the two early returns of the handler, negated
SetEditAccessAllowed(w, sid, data) ==
    /\ sid = w.ownerSocketId
    /\ Get(data, "allowCollaboratorEdits").ty = "boolean"

SrvSetEditAccess(w, sid, data) ==
    IF ~SetEditAccessAllowed(w, sid, data)
    THEN [ws |-> w, out |-> <<>>]
    ELSE LET w1 == [w EXCEPT !.allowCollaboratorEdits =
                        Get(data, "allowCollaboratorEdits").val]
         IN  [ ws |-> w1,
               out |-> IoToRoom(w1, "workspace-permissions", PermissionsMsg(w1)) ]

(***************************************************************************)
(* socket.on("state-change")                                               *)
(***************************************************************************)
\* the type test the handler applies to each field of the delta
WellTyped(f, v) ==
    CASE f = "jsonText" -> v.ty = "string"
      [] f \in {"nodes", "edges"} -> v.ty = "array"
      [] f = "isFullScreen" -> v.ty = "boolean"
      [] f = "editorWidth" -> v.ty = "number"

\* the fields a handler without type tests would apply (data.f ?? workspace.f)
AppliedFieldsUntyped(w, sid, data) ==
    {f \in DocFields : CanEdit(w, sid) /\ f \in DOMAIN data}
    \cup {f \in UiFields : f \in DOMAIN data}
\* the fields of the delta the handler assigns: document fields under canEdit,
\* UI fields always, each only when its type test passes (editorWidth:
\* typeof "number" and Number.isFinite, which NaN fails)
AppliedFields(w, sid, data) ==
    {f \in DocFields : CanEdit(w, sid) /\ WellTyped(f, Get(data, f))}
    \cup {f \in UiFields : WellTyped(f, Get(data, f))}

\* a payload that spreads the incoming delta ({workspaceId, ...data})
StatePayloadSpread(w, applied, data) == data
\* statePayload: exactly the assigned fields, with the values now stored
StatePayload(w, applied, data) == [f \in applied |-> w[f]]

\* io.to(workspaceId): every socket of the room
StateUpdateTargetsAll(w, sid) == RoomSeq(w)
\* socket.to(workspaceId): every socket of the room but the sender
StateUpdateTargets(w, sid) == SelectSeq(RoomSeq(w), LAMBDA t : t # sid)

SrvStateChange(w, sid, data) ==
    LET applied == AppliedFields(w, sid, data)
        w1 == [f \in DOMAIN w |-> IF f \in applied THEN data[f] ELSE w[f]]
        statePayload == StatePayload(w1, applied, data)
        targets == StateUpdateTargets(w1, sid)
    IN  [ ws |-> w1,
          out |-> IF applied = {} THEN <<>>
                  ELSE [i \in DOMAIN targets |->
                           Msg("state-update", targets[i], statePayload)] ]

(***************************************************************************)
(* socket.on("disconnect")                                                 *)
(***************************************************************************)
\* an owner slot cleared and never reassigned
NextOwnerNone(w, sid) == Null
\* workspace.connectedUsers.keys().next().value ?? null
NextOwner(w, sid) == FirstKey(w.connectedUsers)

SrvDisconnect(w, sid) ==
    LET w1 == [w EXCEPT !.connectedUsers = MapDelete(@, sid)]
        ownerChanged == w1.ownerSocketId = sid
        w2 == IF ownerChanged
              THEN [w1 EXCEPT !.ownerSocketId = NextOwner(w1, sid)]
              ELSE w1
    IN  [ ws |-> w2,
          out |-> IoToRoom(w2, "online-users", [users |-> getOnlineUsers(w2)])
                  \o IoToRoom(w2, "user-disconnected", [userId |-> sid])
                  \o IoToRoom(w2, "voice-user-left", [userId |-> sid])
                  \o (IF ownerChanged
                      THEN IoToRoom(w2, "workspace-permissions", PermissionsMsg(w2))
                      ELSE <<>>) ]

(***************************************************************************)
(* socket.on("voice-offer" | "voice-answer" | "voice-ice-candidate")       *)
(***************************************************************************)
VoiceRelayKinds == {"voice-offer", "voice-answer", "voice-ice-candidate"}
\* the field relayed next to fromUserId
RelayedField(kind) == IF kind = "voice-ice-candidate" THEN "candidate" ELSE "sdp"

\* a relay that does not look the target up among the members
VoiceRelayTargetsUnchecked(w, sid, data) ==
    IF Get(data, "targetUserId").ty # "string" THEN <<>>
    ELSE <<Get(data, "targetUserId").val>>
\* typeof data?.targetUserId === "string" and connectedUsers.has(targetUserId);
\* io.to(targetUserId): the room of that name
VoiceRelayTargets(w, sid, data) ==
    LET targetUserId == Get(data, "targetUserId")
    IN  IF targetUserId.ty # "string" \/ ~MapHas(w.connectedUsers, targetUserId.val)
        THEN <<>>
        ELSE <<targetUserId.val>> \o JoinedRoomOf(w, targetUserId.val)

SrvVoiceRelay(w, sid, kind, data) ==
    LET targets == VoiceRelayTargets(w, sid, data)
    IN  [ ws |-> w,
          out |-> [i \in DOMAIN targets |->
                      Msg(kind, targets[i],
                          [fromUserId |-> sid]
                              @@ [f \in {RelayedField(kind)} |-> Get(data, f)])] ]

(***************************************************************************)
(* socket.on("set-user-meta"), socket.on("cursor-move"),                   *)
(* socket.on("voice-join"), socket.on("voice-leave")                       *)
(***************************************************************************)
\* String.prototype.trim over the names and colours of the model
TrimText(s) ==
    CASE s = " Ann " -> "Ann"
      [] s = "  " -> ""
      [] OTHER -> s
\* typeof v === "string" && v.trim().length > 0
IsNonBlankString(v) == v.ty = "string" /\ TrimText(v.val) # ""

MapGet(users, id) == users[CHOOSE i \in DOMAIN users : users[i].id = id]

SrvSetUserMeta(w, sid, data) ==
    IF ~MapHas(w.connectedUsers, sid) THEN [ws |-> w, out |-> <<>>]
    ELSE LET existing == MapGet(w.connectedUsers, sid)
             name == Get(data, "name")
             color == Get(data, "color")
             nextUser == [existing EXCEPT
                            !.name = IF IsNonBlankString(name)
                                     THEN TrimText(name.val) ELSE @,
                            !.color = IF IsNonBlankString(color)
                                      THEN TrimText(color.val) ELSE @]
             w1 == [w EXCEPT !.connectedUsers = MapSet(@, nextUser)]
         IN  [ ws |-> w1,
               out |-> IoToRoom(w1, "online-users", [users |-> getOnlineUsers(w1)]) ]

\* { ...existing, flowX: data.x }: the record with the field set or added
WithField(r, f, v) == [g \in DOMAIN r \cup {f} |-> IF g = f THEN v ELSE r[g]]

SrvCursorMove(w, sid, data) ==
    LET has == MapHas(w.connectedUsers, sid)
        existing == MapGet(w.connectedUsers, sid)
        x == Get(data, "x")
        y == Get(data, "y")
        name == Get(data, "name")
        color == Get(data, "color")
        newName == has /\ IsNonBlankString(name) /\ TrimText(name.val) # existing.name
        newColor == has /\ IsNonBlankString(color) /\ TrimText(color.val) # existing.color
        u1 == IF x.ty = "number" THEN WithField(existing, "flowX", x.val) ELSE existing
        u2 == IF y.ty = "number" THEN WithField(u1, "flowY", y.val) ELSE u1
        u3 == IF newName THEN [u2 EXCEPT !.name = TrimText(name.val)] ELSE u2
        nextUser == IF newColor THEN [u3 EXCEPT !.color = TrimText(color.val)] ELSE u3
        w1 == IF has THEN [w EXCEPT !.connectedUsers = MapSet(@, nextUser)] ELSE w
        targets == StateUpdateTargets(w1, sid)
        \* { workspaceId, userId: socket.id, ...data }: data's fields come last
        payload == [f \in DOMAIN data \cup {"userId"} |->
                       IF f \in DOMAIN data THEN data[f] ELSE sid]
    IN  [ ws |-> w1,
          out |-> [i \in DOMAIN targets |-> Msg("cursor-update", targets[i], payload)]
                  \o (IF newName \/ newColor
                      THEN IoToRoom(w1, "online-users", [users |-> getOnlineUsers(w1)])
                      ELSE <<>>) ]

SrvVoiceJoin(w, sid) ==
    LET targets == StateUpdateTargets(w, sid)
    IN  [ ws |-> w,
          out |-> [i \in DOMAIN targets |->
                      Msg("voice-user-joined", targets[i], [userId |-> sid])] ]

SrvVoiceLeave(w, sid) ==
    LET targets == StateUpdateTargets(w, sid)
    IN  [ ws |-> w,
          out |-> [i \in DOMAIN targets |->
                      Msg("voice-user-left", targets[i], [userId |-> sid])] ]

(***************************************************************************)
(* Inputs of the server specification                                      *)
(***************************************************************************)
NewText == JStr("{\"a\":1}")
NewNodes == JArr(<<"n1">>)
NewEdges == JArr(<<"e1">>)
One(f, v) == [g \in {f} |-> v]
NullData == <<>>
\* every field with a well-typed value other than the initial one
FullNew ==
    [ jsonText |-> NewText, nodes |-> NewNodes, edges |-> NewEdges,
      isFullScreen |-> JBool(TRUE), editorWidth |-> JNum(300) ]
\* every field with its initial value
FullOld ==
    [ jsonText |-> JStr(""), nodes |-> JArr(<<>>), edges |-> JArr(<<>>),
      isFullScreen |-> JBool(FALSE), editorWidth |-> JNum(DEFAULT_EDITOR_WIDTH) ]
\* every field with an ill-typed value
FullIll ==
    [ jsonText |-> JNum(7), nodes |-> JStr("nodes"), edges |-> Undef,
      isFullScreen |-> JStr("true"), editorWidth |-> JNaN ]
DocAndUiDelta == [jsonText |-> NewText, isFullScreen |-> JBool(TRUE)]
Deltas ==
    {One(f, FullNew[f]) : f \in StateFields}
    \cup { NullData, FullNew, FullOld, FullIll, DocAndUiDelta,
           [jsonText |-> NewText, nodes |-> NewNodes, edges |-> NewEdges],
           [jsonText |-> JNum(7), nodes |-> NewNodes, editorWidth |-> JNum(300)] }

EditAccessData ==
    { One("allowCollaboratorEdits", JBool(TRUE)),
      One("allowCollaboratorEdits", JBool(FALSE)),
      One("allowCollaboratorEdits", JStr("true")) }

\* a target that is a socket id (member or not), one that is no string,
\* none at all, no payload at all
VoiceRelayData ==
    { [targetUserId |-> JStr(t), sdp |-> JStr("sdp"), candidate |-> JStr("cand")] :
          t \in Sessions }
    \cup { [targetUserId |-> JNum(1), sdp |-> JStr("sdp"), candidate |-> JStr("cand")],
           [sdp |-> JStr("sdp"), candidate |-> JStr("cand")],
           NullData }

Event(kind, sid, data) == [kind |-> kind, sid |-> sid, data |-> data]

(***************************************************************************)
(* The server specification: one action per handler.  Only a connected     *)
(* socket has handlers registered; a socket that is not connected can      *)
(* connect.                                                                *)
(***************************************************************************)
SrvInit ==
    /\ ws = createWorkspaceState
    /\ ev = Event("none", Null, NullData)
    /\ out = <<>>

Handle(r, e) ==
    /\ ws' = r.ws
    /\ out' = r.out
    /\ ev' = e
    /\ UNCHANGED <<rtVars, syncVars, voiceVars>>

Connect(s) ==
    /\ s \notin MemberIds(ws)
    /\ Handle(SrvConnection(ws, s), Event("connection", s, NullData))

Disconnect(s) ==
    /\ s \in MemberIds(ws)
    /\ Handle(SrvDisconnect(ws, s), Event("disconnect", s, NullData))

SetEditAccess(s, d) ==
    /\ s \in MemberIds(ws)
    /\ Handle(SrvSetEditAccess(ws, s, d), Event("set-edit-access", s, d))

StateChange(s, d) ==
    /\ s \in MemberIds(ws)
    /\ Handle(SrvStateChange(ws, s, d), Event("state-change", s, d))

VoiceRelay(s, k, d) ==
    /\ s \in MemberIds(ws)
    /\ Handle(SrvVoiceRelay(ws, s, k, d), Event(k, s, d))

SrvNext ==
    \/ \E s \in Sessions : Connect(s)
    \/ \E s \in Sessions : Disconnect(s)
    \/ \E s \in Sessions, d \in EditAccessData : SetEditAccess(s, d)
    \/ \E s \in Sessions, d \in Deltas : StateChange(s, d)

\* the signalling handlers, with sockets that come and go
RelayNext ==
    \/ \E s \in Sessions : Connect(s)
    \/ \E s \in Sessions : Disconnect(s)
    \/ \E s \in Sessions, k \in VoiceRelayKinds, d \in VoiceRelayData : VoiceRelay(s, k, d)

\* a name to trim, a blank name, a name that is no string, nothing
UserMetaData ==
    { [name |-> JStr(" Ann ")], [name |-> JStr("  ")], [name |-> JNum(7)], NullData }
\* a position, a position that is no number, a name
CursorData ==
    { [x |-> JNum(5)], [x |-> JStr("5")], [name |-> JStr("Ann")] }
\* the payloads of the specification of all events
EventMetaData == { [name |-> JStr(" Ann ")] }
EventCursorData == { [x |-> JNum(5), name |-> JStr("Ann")] }
EventDeltas == {One("jsonText", NewText), FullIll}
EventRelayData ==
    { [targetUserId |-> JStr(1), sdp |-> JStr("sdp"), candidate |-> JStr("cand")] }

SetUserMeta(s, d) ==
    /\ s \in MemberIds(ws)
    /\ Handle(SrvSetUserMeta(ws, s, d), Event("set-user-meta", s, d))

CursorMove(s, d) ==
    /\ s \in MemberIds(ws)
    /\ Handle(SrvCursorMove(ws, s, d), Event("cursor-move", s, d))

VoiceJoin(s) ==
    /\ s \in MemberIds(ws)
    /\ Handle(SrvVoiceJoin(ws, s), Event("voice-join", s, NullData))

VoiceLeave(s) ==
    /\ s \in MemberIds(ws)
    /\ Handle(SrvVoiceLeave(ws, s), Event("voice-leave", s, NullData))

\* members come and go and update their records
PresenceNext ==
    \/ \E s \in Sessions : Connect(s)
    \/ \E s \in Sessions : Disconnect(s)
    \/ \E s \in Sessions, d \in UserMetaData : SetUserMeta(s, d)
    \/ \E s \in Sessions, d \in CursorData : CursorMove(s, d)

\* every handler of the server
EventsNext ==
    \/ \E s \in Sessions : Connect(s)
    \/ \E s \in Sessions : Disconnect(s)
    \/ \E s \in Sessions, d \in EventMetaData : SetUserMeta(s, d)
    \/ \E s \in Sessions, d \in EventCursorData : CursorMove(s, d)
    \/ \E s \in Sessions, d \in EditAccessData : SetEditAccess(s, d)
    \/ \E s \in Sessions, d \in EventDeltas : StateChange(s, d)
    \/ \E s \in Sessions, k \in VoiceRelayKinds, d \in EventRelayData : VoiceRelay(s, k, d)
    \/ \E s \in Sessions : VoiceJoin(s)
    \/ \E s \in Sessions : VoiceLeave(s)


(***************************************************************************)
(* SpecIsolation: two workspaces on one server (workspaces.get,            *)
(* server.mjs:65-74).  A workspace id is whatever the client sends that    *)
(* matches WORKSPACE_ID_PATTERN; socket ids match it too, so one of the    *)
(* two workspaces is named like socket 1, the other like no socket.  In    *)
(* this specification ws maps each workspace id to its WorkspaceState.     *)
(***************************************************************************)
W_Plain == 7
W_LikeSocket == 1
WorkspaceIds == {W_Plain, W_LikeSocket}

\* the sockets connected to either workspace, and the workspace of a socket
Connected(wss) == UNION {MemberIds(wss[W]) : W \in WorkspaceIds}
WorkspaceOf(wss, sid) == CHOOSE W \in WorkspaceIds : sid \in MemberIds(wss[W])

\* the adapter's view for workspace W when the sockets in conn are connected
AdapterView(wss, W, conn) ==
    [ guests |-> IF W \in conn /\ W \notin MemberIds(wss[W]) THEN <<W>> ELSE <<>>,
      joined |-> [id \in WorkspaceIds |->
                     SelectSeq(RoomSeq(wss[id]), LAMBDA t : t # id)] ]
WithAdapter(wss, W, conn) ==
    [f \in DOMAIN wss[W] \cup {"adapter"} |->
        IF f = "adapter" THEN AdapterView(wss, W, conn) ELSE wss[W][f]]
WithoutAdapter(w) == [f \in DOMAIN w \ {"adapter"} |-> w[f]]

IsolationInit ==
    /\ ws = [W \in WorkspaceIds |-> createWorkspaceState]
    /\ ev = Event("none", Null, NullData)
    /\ out = <<>>

IsoHandle(W, r, e) ==
    /\ ws' = [ws EXCEPT ![W] = WithoutAdapter(r.ws)]
    /\ out' = r.out
    /\ ev' = e
    /\ UNCHANGED <<rtVars, syncVars, voiceVars>>

\* io.on("connection") with handshake.query.workspaceId = W
IsoConnect(s, W) ==
    /\ s \notin Connected(ws)
    /\ IsoHandle(W, SrvConnection(WithAdapter(ws, W, Connected(ws) \cup {s}), s),
                 Event("connection", s, NullData))

\* a socket that disconnects has left its rooms when the handler runs
IsoDisconnect(s) ==
    /\ s \in Connected(ws)
    /\ \E W \in {WorkspaceOf(ws, s)} :
          IsoHandle(W, SrvDisconnect(WithAdapter(ws, W, Connected(ws) \ {s}), s),
                    Event("disconnect", s, NullData))

IsoStateChange(s, d) ==
    /\ s \in Connected(ws)
    /\ \E W \in {WorkspaceOf(ws, s)} :
          IsoHandle(W, SrvStateChange(WithAdapter(ws, W, Connected(ws)), s, d),
                    Event("state-change", s, d))

IsoVoiceRelay(s, k, d) ==
    /\ s \in Connected(ws)
    /\ \E W \in {WorkspaceOf(ws, s)} :
          IsoHandle(W, SrvVoiceRelay(WithAdapter(ws, W, Connected(ws)), s, k, d),
                    Event(k, s, d))

IsoVoiceJoin(s) ==
    /\ s \in Connected(ws)
    /\ \E W \in {WorkspaceOf(ws, s)} :
          IsoHandle(W, SrvVoiceJoin(WithAdapter(ws, W, Connected(ws)), s),
                    Event("voice-join", s, NullData))

IsolationDeltas == {One("jsonText", NewText)}
IsolationRelayData ==
    { [targetUserId |-> JStr(t), sdp |-> JStr("sdp")] : t \in Sessions }

IsolationNext ==
    \/ \E s \in Sessions, W \in WorkspaceIds : IsoConnect(s, W)
    \/ \E s \in Sessions : IsoDisconnect(s)
    \/ \E s \in Sessions, d \in IsolationDeltas : IsoStateChange(s, d)
    \/ \E s \in Sessions, d \in IsolationRelayData : IsoVoiceRelay(s, "voice-offer", d)
    \/ \E s \in Sessions : IsoVoiceJoin(s)

(***************************************************************************)
(* JSON documents and the JSON <-> graph transform (src/App.tsx).          *)
(*                                                                         *)
(* A string is the sequence of its characters, so that concatenation,      *)
(* trimming, the digit test and the number conversions are computed.       *)
(* A JSON value is a tagged record [t, x]; an object is the sequence of    *)
(* its members [k, v] in JavaScript property order.                        *)
(***************************************************************************)
VNull == [t |-> "null", x |-> "null"]
VBool(b) == [t |-> "bool", x |-> b]
VNum(n) == [t |-> "num", x |-> n]
\* Number(s) of a string that is no number
VNaN == [t |-> "nan", x |-> "NaN"]
VStr(s) == [t |-> "str", x |-> s]
VArr(items) == [t |-> "arr", x |-> items]
VObj(members) == [t |-> "obj", x |-> members]

DigitChars == <<"0", "1", "2", "3", "4", "5", "6", "7", "8", "9">>
IsDigit(c) == \E i \in DOMAIN DigitChars : DigitChars[i] = c

\* String(n) for an integer n
RECURSIVE NatToStr(_)
NatToStr(n) ==
    IF n < 10 THEN <<DigitChars[n + 1]>>
    ELSE NatToStr(n \div 10) \o <<DigitChars[(n % 10) + 1]>>
NumToStr(n) == IF n < 0 THEN <<"-">> \o NatToStr(0 - n) ELSE NatToStr(n)

\* String.prototype.trim
RECURSIVE TrimLeft(_)
TrimLeft(s) == IF s # <<>> /\ Head(s) = " " THEN TrimLeft(Tail(s)) ELSE s
RECURSIVE TrimRight(_)
TrimRight(s) ==
    IF s # <<>> /\ s[Len(s)] = " " THEN TrimRight(SubSeq(s, 1, Len(s) - 1)) ELSE s
Trim(s) == TrimRight(TrimLeft(s))

AllDigits(s) == \A i \in DOMAIN s : IsDigit(s[i])
RECURSIVE DigitsToNat(_)
DigitsToNat(s) ==
    IF s = <<>> THEN 0
    ELSE 10 * DigitsToNat(SubSeq(s, 1, Len(s) - 1))
         + (CHOOSE i \in DOMAIN DigitChars : DigitChars[i] = s[Len(s)]) - 1

\* Number(s), for the decimal integers and the strings that are none
\* (fractions, exponents and radix prefixes are outside the inputs)
StrToNum(s) ==
    LET u == Trim(s)
    IN  IF u = <<>> THEN VNum(0)
        ELSE IF AllDigits(u) THEN VNum(DigitsToNat(u))
        ELSE IF Head(u) \in {"-", "+"} /\ Len(u) > 1 /\ AllDigits(Tail(u))
             THEN VNum(IF Head(u) = "-" THEN 0 - DigitsToNat(Tail(u))
                       ELSE DigitsToNat(Tail(u)))
        ELSE VNaN

\* /^\d+$/.test(String(key).trim())
IsNumericKey(key) == LET u == Trim(key) IN u # <<>> /\ AllDigits(u)

\* /^#([0-9A-F]{3}){1,2}$/i
IsColorString(s) ==
    /\ Len(s) \in {4, 7}
    /\ s[1] = "#"
    /\ \A i \in 2..Len(s) :
          \/ IsDigit(s[i])
          \/ s[i] \in {"a", "b", "c", "d", "e", "f", "A", "B", "C", "D", "E", "F"}

(***************************************************************************)
(* JavaScript objects: an integer-index key is enumerated before every     *)
(* other key, in ascending order; the other keys in insertion order.       *)
(* Assigning to a present key keeps its place.                             *)
(***************************************************************************)
IsIndexKey(k) == k # <<>> /\ AllDigits(k) /\ (Len(k) = 1 \/ k[1] # "0")
HasKey(members, k) == \E i \in DOMAIN members : members[i].k = k
KeyBefore(m, k) ==
    IF IsIndexKey(k)
    THEN IsIndexKey(m.k) /\ DigitsToNat(m.k) < DigitsToNat(k)
    ELSE TRUE
ObjSet(members, k, v) ==
    IF HasKey(members, k)
    THEN [i \in DOMAIN members |->
             IF members[i].k = k THEN [k |-> k, v |-> v] ELSE members[i]]
    ELSE SelectSeq(members, LAMBDA m : KeyBefore(m, k))
         \o <<[k |-> k, v |-> v]>>
         \o SelectSeq(members, LAMBDA m : ~KeyBefore(m, k))
ObjGet(members, k) == (CHOOSE i \in DOMAIN members : members[i].k = k)

\* deep equality of two JSON values: arrays by position, objects by key
RECURSIVE DeepEq(_, _)
DeepEq(a, b) ==
    IF a.t # b.t THEN FALSE
    ELSE IF a.t = "arr"
    THEN /\ Len(a.x) = Len(b.x)
         /\ \A i \in DOMAIN a.x : DeepEq(a.x[i], b.x[i])
    ELSE IF a.t = "obj"
    THEN /\ Len(a.x) = Len(b.x)
         /\ \A i \in DOMAIN a.x :
               /\ HasKey(b.x, a.x[i].k)
               /\ DeepEq(a.x[i].v, b.x[ObjGet(b.x, a.x[i].k)].v)
    ELSE a.x = b.x

(***************************************************************************)
(* generateGraph (App.tsx:469-604)                                         *)
(***************************************************************************)
S_root == <<"r", "o", "o", "t">>
S_value == <<"v", "a", "l", "u", "e">>
S_null == <<"n", "u", "l", "l">>
S_true == <<"t", "r", "u", "e">>
S_false == <<"f", "a", "l", "s", "e">>
S_circular == <<"[", "C", "i", "r", "c", "u", "l", "a", "r", "]">>
\* a null edgeSource / edgeSourceHandle; like "" it is falsy
NoStr == <<>>
Truthy(s) == s # <<>>

IsPrimitive(v) == v.t \notin {"arr", "obj"}
\* String(val) of a primitive
PrimToStr(v) ==
    CASE v.t = "null" -> S_null
      [] v.t = "bool" -> IF v.x THEN S_true ELSE S_false
      [] v.t = "num" -> NumToStr(v.x)
      [] v.t = "str" -> v.x
PrimitiveTypeOf(v) ==
    CASE v.t = "null" -> "null"
      [] v.t = "num" -> "number"
      [] v.t = "bool" -> "boolean"
      [] OTHER -> "string"

\* the row pushed for one key of an object
MakeRow(key, val) ==
    [ id |-> key,
      key |-> key,
      value |-> CASE val.t = "arr" ->
                       <<"[", " ">> \o NumToStr(Len(val.x))
                       \o <<" ", "i", "t", "e", "m", "s", " ", "]">>
                  [] val.t = "obj" ->
                       <<"{", " ">> \o NumToStr(Len(val.x))
                       \o <<" ", "k", "e", "y", "s", " ", "}">>
                  [] OTHER -> PrimToStr(val),
      type |-> CASE val.t = "arr" -> "array"
                 [] val.t = "obj" -> "object"
                 [] OTHER -> "primitive",
      primitiveType |-> IF IsPrimitive(val) THEN PrimitiveTypeOf(val) ELSE "string",
      isColor |-> val.t = "str" /\ IsColorString(val.x) ]

MakeNode(id, rows, synthetic, wrapper) ==
    [ id |-> id, rows |-> rows,
      isSyntheticRoot |-> synthetic,
      isPrimitiveArrayItemWrapper |-> wrapper ]

MakeEdge(source, sourceHandle, target, label) ==
    [ id |-> <<"e", "-">> \o source \o <<"-">> \o sourceHandle \o <<"-">> \o target,
      source |-> source, sourceHandle |-> sourceHandle,
      target |-> target, label |-> label ]

\* if (edgeSource && edgeSourceHandle) edges.push(...)
PushEdge(edges, source, handle, target, label) ==
    IF Truthy(source) /\ Truthy(handle)
    THEN Append(edges, MakeEdge(source, handle, target, label))
    ELSE edges

\* `${nodeId}-${key}` and `${nodeId}-${index}`
ChildId(nodeId, part) == nodeId \o <<"-">> \o part

RECURSIVE processValue(_, _, _, _, _, _, _, _)
RECURSIVE processItems(_, _, _, _, _, _, _, _)
RECURSIVE processKeys(_, _, _, _, _)

\* value.forEach((item, index) => processValue(item, `${nodeId}-${index}`, ...))
processItems(g, items, index, nodeId, edgeSource, edgeSourceHandle, edgeLabel, synth) ==
    IF index > Len(items) THEN g
    ELSE processItems(
             processValue(g, items[index], ChildId(nodeId, NumToStr(index - 1)),
                          edgeSource, edgeSourceHandle, edgeLabel,
                          IsPrimitive(items[index]), synth),
             items, index + 1, nodeId, edgeSource, edgeSourceHandle, edgeLabel, synth)

\* keys.forEach(key => { if (object) processValue(val, `${nodeId}-${key}`, nodeId, key, key) })
processKeys(g, members, i, nodeId, synth) ==
    IF i > Len(members) THEN g
    ELSE processKeys(
             IF IsPrimitive(members[i].v) THEN g
             ELSE processValue(g, members[i].v, ChildId(nodeId, members[i].k),
                               nodeId, members[i].k, members[i].k, FALSE, synth),
             members, i + 1, nodeId, synth)

processValue(g, value, nodeId, edgeSource, edgeSourceHandle, edgeLabel, wrapper, synth) ==
    IF value.t = "arr"
    THEN processItems(g, value.x, 1, nodeId, edgeSource, edgeSourceHandle, edgeLabel, synth)
    ELSE IF value.t = "obj"
    THEN LET rows == [i \in DOMAIN value.x |-> MakeRow(value.x[i].k, value.x[i].v)]
             g1 == [ nodes |-> Append(g.nodes,
                                  MakeNode(nodeId, rows, nodeId = S_root /\ synth, wrapper)),
                     edges |-> PushEdge(g.edges, edgeSource, edgeSourceHandle,
                                        nodeId, edgeLabel) ]
         IN  processKeys(g1, value.x, 1, nodeId, synth)
    ELSE [ nodes |-> Append(g.nodes,
                        MakeNode(nodeId,
                                 << [ id |-> S_root, key |-> S_value,
                                      value |-> PrimToStr(value),
                                      type |-> "primitive",
                                      primitiveType |-> PrimitiveTypeOf(value),
                                      isColor |-> FALSE ] >>,
                                 FALSE, wrapper)),
           edges |-> PushEdge(g.edges, edgeSource, edgeSourceHandle, nodeId, edgeLabel) ]

EmptyGraph == [nodes |-> <<>>, edges |-> <<>>]

generateGraph(json) ==
    LET hasSyntheticRoot == json.t # "obj"
        rootObj == IF hasSyntheticRoot
                   THEN VObj(<<[k |-> S_root, v |-> json]>>)
                   ELSE json
    IN  processValue(EmptyGraph, rootObj, S_root, NoStr, NoStr, <<>>, FALSE,
                     hasSyntheticRoot)


(***************************************************************************)
(* buildJson (App.tsx:1205-1322)                                           *)
(***************************************************************************)
\* new Map(nodes.map(n => [n.id, n])): a later node of the same id wins
NodeMapHas(nodes, id) == \E i \in DOMAIN nodes : nodes[i].id = id
NodeMapGet(nodes, id) ==
    nodes[CHOOSE i \in DOMAIN nodes :
             /\ nodes[i].id = id
             /\ \A j \in DOMAIN nodes : nodes[j].id = id => j <= i]

\* (edgeMap.get(nodeId) || []).filter(e => e.sourceHandle === row.id)
RowEdges(edges, nodeId, rowId) ==
    SelectSeq(edges, LAMBDA e : e.source = nodeId /\ e.sourceHandle = rowId)

\* the value a primitive row stands for
RowValue(row) ==
    IF row.primitiveType = "number" THEN StrToNum(row.value)
    ELSE IF row.primitiveType = "boolean" THEN VBool(row.value = S_true)
    ELSE IF row.primitiveType = "null" THEN VNull
    ELSE VStr(row.value)

\* the test without String.prototype.trim
RowsAreArrayUntrimmed(rows) ==
    Len(rows) > 0 /\ \A i \in DOMAIN rows : rows[i].key # <<>> /\ AllDigits(rows[i].key)
\* rows.every(r => /^\d+$/.test(String(r.key).trim())), on a non-empty node
RowsAreArray(rows) == Len(rows) > 0 /\ \A i \in DOMAIN rows : IsNumericKey(rows[i].key)

RECURSIVE processNode(_, _, _, _)
RECURSIVE processTargets(_, _, _, _, _, _)
RECURSIVE processArrayRows(_, _, _, _, _, _, _)
RECURSIVE processObjectRows(_, _, _, _, _, _, _)

\* rowEdges.forEach(edge => result.push(processNode(edge.target)))
processTargets(nodes, edges, visited, rowEdges, i, acc) ==
    IF i > Len(rowEdges) THEN [val |-> acc, visited |-> visited]
    ELSE LET r == processNode(nodes, edges, visited, rowEdges[i].target)
         IN  processTargets(nodes, edges, r.visited, rowEdges, i + 1,
                            Append(acc, r.val))

processArrayRows(nodes, edges, visited, nodeId, rows, i, result) ==
    IF i > Len(rows) THEN [val |-> result, visited |-> visited]
    ELSE LET row == rows[i]
             rowEdges == RowEdges(edges, nodeId, row.id)
         IN  IF Len(rowEdges) > 0
             THEN LET r == processTargets(nodes, edges, visited, rowEdges, 1, result)
                  IN  processArrayRows(nodes, edges, r.visited, nodeId, rows, i + 1, r.val)
             ELSE processArrayRows(nodes, edges, visited, nodeId, rows, i + 1,
                      Append(result,
                             IF row.type = "array" THEN VArr(<<>>)
                             ELSE IF row.type = "object" THEN VObj(<<>>)
                             ELSE RowValue(row)))

processObjectRows(nodes, edges, visited, nodeId, rows, i, result) ==
    IF i > Len(rows) THEN [val |-> result, visited |-> visited]
    ELSE LET row == rows[i]
             rowEdges == RowEdges(edges, nodeId, row.id)
         IN  IF row.type = "array" /\ Len(rowEdges) > 0
             THEN LET r == processTargets(nodes, edges, visited, rowEdges, 1, <<>>)
                  IN  processObjectRows(nodes, edges, r.visited, nodeId, rows, i + 1,
                                        ObjSet(result, row.key, VArr(r.val)))
             ELSE IF row.type = "array"
             THEN processObjectRows(nodes, edges, visited, nodeId, rows, i + 1,
                                    ObjSet(result, row.key, VArr(<<>>)))
             ELSE IF Len(rowEdges) > 0
             THEN LET r == processNode(nodes, edges, visited, rowEdges[1].target)
                  IN  processObjectRows(nodes, edges, r.visited, nodeId, rows, i + 1,
                                        ObjSet(result, row.key, r.val))
             ELSE IF row.type = "object"
             THEN processObjectRows(nodes, edges, visited, nodeId, rows, i + 1,
                                    ObjSet(result, row.key, VObj(<<>>)))
             ELSE processObjectRows(nodes, edges, visited, nodeId, rows, i + 1,
                                    ObjSet(result, row.key, RowValue(row)))

processNode(nodes, edges, visited, nodeId) ==
    IF nodeId \in visited THEN [val |-> VStr(S_circular), visited |-> visited]
    ELSE IF ~NodeMapHas(nodes, nodeId)
    THEN [val |-> VNull, visited |-> visited \cup {nodeId}]
    ELSE LET node == NodeMapGet(nodes, nodeId)
             rows == node.rows
             entered == visited \cup {nodeId}
         IN  IF node.isPrimitiveArrayItemWrapper /\ Len(rows) > 0
             THEN [val |-> RowValue(rows[1]), visited |-> entered \ {nodeId}]
             ELSE IF RowsAreArray(rows)
             THEN LET r == processArrayRows(nodes, edges, entered, nodeId, rows, 1, <<>>)
                  IN  [val |-> VArr(r.val), visited |-> r.visited \ {nodeId}]
             ELSE LET r == processObjectRows(nodes, edges, entered, nodeId, rows, 1, <<>>)
                  IN  [val |-> VObj(r.val), visited |-> r.visited \ {nodeId}]

\* nodes with no incoming edge
RootNodes(nodes, edges) ==
    SelectSeq(nodes, LAMBDA n : \A i \in DOMAIN edges : edges[i].target # n.id)

RECURSIVE processRoots(_, _, _, _, _, _)
\* rootNodes.forEach(n => { multiRoot[n.id] = processNode(n.id) })
processRoots(nodes, edges, visited, rootNodes, i, multiRoot) ==
    IF i > Len(rootNodes) THEN multiRoot
    ELSE LET r == processNode(nodes, edges, visited, rootNodes[i].id)
         IN  processRoots(nodes, edges, r.visited, rootNodes, i + 1,
                          ObjSet(multiRoot, rootNodes[i].id, r.val))

\* buildJson without its fallback to nodes[0] for a graph without a root
buildJsonRootsOnly(nodes, edges) ==
    LET rootNodes == RootNodes(nodes, edges)
    IN  IF Len(rootNodes) = 1
        THEN processNode(nodes, edges, {}, rootNodes[1].id).val
        ELSE VObj(processRoots(nodes, edges, {}, rootNodes, 1, <<>>))
buildJson(nodes, edges) ==
    LET rootNodes == RootNodes(nodes, edges)
    IN  IF Len(rootNodes) = 0 /\ Len(nodes) > 0
        THEN processNode(nodes, edges, {}, nodes[1].id).val
        ELSE IF Len(rootNodes) = 1
        THEN LET rootValue == processNode(nodes, edges, {}, rootNodes[1].id).val
             IN  IF /\ rootNodes[1].isSyntheticRoot
                    /\ rootValue.t = "obj"
                    /\ HasKey(rootValue.x, S_root)
                 THEN rootValue.x[ObjGet(rootValue.x, S_root)].v
                 ELSE rootValue
        ELSE VObj(processRoots(nodes, edges, {}, rootNodes, 1, <<>>))


(***************************************************************************)
(* The documents SpecRT draws from: every shape of nesting depth two over  *)
(* one leaf, and every flat container over the kinds of primitive.         *)
(***************************************************************************)
\* the keys "0", "a" and "", in the order JSON.parse enumerates them
KeySeq == << <<"0">>, <<"a">>, <<>> >>
Leaves == {VNull, VBool(TRUE), VBool(FALSE), VNum(12), VStr(<<"x">>), VStr(<<"7">>)}
\* {"a": [1, "x", true, null]}
MixedArrayDoc ==
    VObj(<<[k |-> <<"a">>,
            v |-> VArr(<<VNum(1), VStr(<<"x">>), VBool(TRUE), VNull>>)]>>)
\* {"root": {"root": 1}}: an object that has a key named "root" itself
RootKeyDoc ==
    VObj(<<[k |-> S_root, v |-> VObj(<<[k |-> S_root, v |-> VNum(1)]>>)]>>)
\* {"a-b": {}, "a": {"b": {}}}: a key that reads like the path of another value
DashKeyDoc ==
    VObj(<<[k |-> <<"a", "-", "b">>, v |-> VObj(<<>>)],
           [k |-> <<"a">>, v |-> VObj(<<[k |-> <<"b">>, v |-> VObj(<<>>)]>>)]>>)
\* {"a-0": {}, "a": [{}]}: a key that reads like an index of the array beside it
DashIndexDoc ==
    VObj(<<[k |-> <<"a", "-", "0">>, v |-> VObj(<<>>)],
           [k |-> <<"a">>, v |-> VArr(<<VObj(<<>>)>>)]>>)
Documents ==
    LET Keys == {KeySeq[i] : i \in DOMAIN KeySeq}
        Leaf == VNum(1)
        SeqsUpTo(S, n) == UNION {[1..k -> S] : k \in 0..n}
        ArraysOver(S) == {VArr(q) : q \in SeqsUpTo(S, MaxWidth)}
        ObjOf(f) ==
            LET ks == SelectSeq(KeySeq, LAMBDA k : k \in DOMAIN f)
            IN  VObj([i \in DOMAIN ks |-> [k |-> ks[i], v |-> f[ks[i]]]])
        ObjectsOver(S) ==
            {ObjOf(f) : f \in UNION {[T -> S] :
                            T \in {U \in SUBSET Keys : Cardinality(U) <= MaxWidth}}}
        Shapes1 == {Leaf} \cup ArraysOver({Leaf}) \cup ObjectsOver({Leaf})
        Shapes2 == ArraysOver(Shapes1) \cup ObjectsOver(Shapes1)
        Flat == Leaves \cup ArraysOver(Leaves) \cup ObjectsOver(Leaves)
    IN  Shapes2 \cup Flat \cup {Leaf, MixedArrayDoc, RootKeyDoc, DashKeyDoc, DashIndexDoc}

(***************************************************************************)
(* SpecRT: the text -> graph effect (App.tsx:1346-1366) hands the parsed   *)
(* document to generateGraph; the graph -> text effect (App.tsx:1202-1344) *)
(* hands the resulting nodes and edges to buildJson.                       *)
(***************************************************************************)
RtIdle ==
    /\ rtIn = VNull
    /\ rtGraph = EmptyGraph
    /\ rtOut = VNull
    /\ rtPc = "off"

RtInit ==
    /\ rtIn \in Documents
    /\ rtGraph = EmptyGraph
    /\ rtOut = VNull
    /\ rtPc = "parsed"

RtGenerate ==
    /\ rtPc = "parsed"
    /\ rtGraph' = generateGraph(rtIn)
    /\ rtPc' = "graph"
    /\ UNCHANGED <<rtIn, rtOut>>
    /\ UNCHANGED <<srvVars, syncVars, voiceVars>>

RtBuild ==
    /\ rtPc = "graph"
    /\ Len(rtGraph.nodes) > 0
    /\ rtOut' = buildJson(rtGraph.nodes, rtGraph.edges)
    /\ rtPc' = "built"
    /\ UNCHANGED <<rtIn, rtGraph>>
    /\ UNCHANGED <<srvVars, syncVars, voiceVars>>

RtNext == RtGenerate \/ RtBuild

(***************************************************************************)
(* SpecGraph: buildJson on the graphs a user can leave on the canvas by    *)
(* adding and deleting nodes, rows and edges (App.tsx:1169-1200): one or   *)
(* two nodes A and B, each with one of a fixed list of row sequences, and  *)
(* a few edges from their rows to A, to B or to a node M that is not       *)
(* there.  Cycles, graphs without a root, graphs with two roots and edges  *)
(* with a missing target are all among them.                               *)
(***************************************************************************)
\* most edges of a drawn graph
MaxGraphEdges == 2

N_A == <<"A">>
N_B == <<"B">>
\* the id of a node that was deleted
N_M == <<"M">>

\* a RowData whose handle id is its key
GRow(key, value, type) ==
    [ id |-> key, key |-> key, value |-> value, type |-> type,
      primitiveType |-> "string", isColor |-> FALSE ]

\* the rows of a drawn node: none; one primitive, object or array row under
\* an index key or a name; primitive rows keyed "2", "0", "1" in that order;
\* a key that is an index once trimmed; an index key beside a name
GraphRowLists ==
    { <<>>,
      <<GRow(<<"0">>, <<"x">>, "primitive")>>,
      <<GRow(<<"a">>, <<"x">>, "primitive")>>,
      <<GRow(<<"0">>, <<>>, "object")>>,
      <<GRow(<<"a">>, <<>>, "object")>>,
      <<GRow(<<"a">>, <<>>, "array")>>,
      <<GRow(<<"2">>, <<"x">>, "primitive"), GRow(<<"0">>, <<"y">>, "primitive"),
        GRow(<<"1">>, <<"z">>, "primitive")>>,
      <<GRow(<<" ", "1", " ">>, <<"x">>, "primitive"), GRow(<<"0">>, <<>>, "object")>>,
      <<GRow(<<"0">>, <<>>, "object"), GRow(<<"a">>, <<"x">>, "primitive")>> }

\* node data: the rows, and whether the node wraps a primitive array item
GraphNodeData ==
    [rows : GraphRowLists, wrapper : {FALSE}]
    \cup { [rows |-> <<GRow(S_value, <<"x">>, "primitive")>>, wrapper |-> TRUE],
           [rows |-> <<>>, wrapper |-> TRUE] }

Graphs ==
    LET NodeLists ==
            {<<MakeNode(N_A, a.rows, FALSE, a.wrapper)>> : a \in GraphNodeData}
            \cup {<<MakeNode(N_A, a.rows, FALSE, a.wrapper),
                    MakeNode(N_B, b.rows, FALSE, b.wrapper)>> :
                       a \in GraphNodeData, b \in GraphNodeData}
        Targets == <<N_A, N_B, N_M>>
        \* an edge from row j of node i to target t
        Ends(ns) == {<<i, j, t>> : i \in DOMAIN ns, j \in 1..3, t \in 1..3}
                    \cap {e \in (1..2) \X (1..3) \X (1..3) : e[2] <= Len(ns[e[1]].rows)}
        Rank(e) == (e[1] * 100) + (e[2] * 10) + e[3]
        RECURSIVE UpTo(_, _)
        UpTo(S, k) == IF k = 0 THEN {{}}
                      ELSE LET P == UpTo(S, k - 1)
                           IN  P \cup {q \cup {x} : q \in P, x \in S}
        RECURSIVE Ordered(_, _)
        Ordered(ns, S) ==
            IF S = {} THEN <<>>
            ELSE LET e == CHOOSE x \in S : \A y \in S : Rank(x) <= Rank(y)
                     row == ns[e[1]].rows[e[2]]
                 IN  <<MakeEdge(ns[e[1]].id, row.id, Targets[e[3]], row.key)>>
                     \o Ordered(ns, S \ {e})
    IN  UNION { {[nodes |-> ns, edges |-> Ordered(ns, S)] :
                    S \in UpTo(Ends(ns), MaxGraphEdges)} : ns \in NodeLists }

GraphInit ==
    /\ rtIn = VNull
    /\ rtGraph \in Graphs
    /\ rtOut = VNull
    /\ rtPc = "graph"

GraphNext == RtBuild

(***************************************************************************)
(* The client (src/App.tsx).  An editor text is a string; JSON.parse and   *)
(* JSON.stringify are tabulated over the texts of the model.  The default  *)
(* document stands for initialJson cut down to one fruit with one field.   *)
(* Presence, cursors, voice and layout are left out of SpecSync.           *)
(***************************************************************************)
EDITOR_DEFAULT_WIDTH == 420
EDITOR_MIN_WIDTH == 260
GRAPH_MIN_WIDTH == 320

Clients == 1..NumClients

DefaultText == "{\"fruits\":[{\"name\":\"Apple\"}]}"
TextA == "{\"a\":1}"
TextNested == "[[1]]"
TextFlat == "[1]"
\* a text JSON.parse throws on
TextMalformed == "{\"a\":"
KnownTexts == {DefaultText, TextA, TextNested, TextFlat}
\* what the user types into the editor
TypedTexts == {TextA, TextNested, TextMalformed}
\* where the user drags the resize handle to
ResizeWidths == {300}

DefaultDoc ==
    VObj(<<[k |-> <<"f", "r", "u", "i", "t", "s">>,
            v |-> VArr(<<VObj(<<[k |-> <<"n", "a", "m", "e">>,
                                 v |-> VStr(<<"A", "p", "p", "l", "e">>)]>>)>>)]>>)
CanParse(text) == text \in KnownTexts
JSONParse(text) ==
    CASE text = DefaultText -> DefaultDoc
      [] text = TextA -> VObj(<<[k |-> <<"a">>, v |-> VNum(1)]>>)
      [] text = TextNested -> VArr(<<VArr(<<VNum(1)>>)>>)
      [] text = TextFlat -> VArr(<<VNum(1)>>)
\* a value no text of the model stands for is rendered as "?"
JSONStringify(v) ==
    IF \E text \in KnownTexts : JSONParse(text) = v
    THEN CHOOSE text \in KnownTexts : JSONParse(text) = v
    ELSE "?"

Max(a, b) == IF a >= b THEN a ELSE b
Min(a, b) == IF a <= b THEN a ELSE b
\* window.innerWidth
InnerWidth(c) == 1280
clampEditorWidth(c, width) ==
    LET maxWidth == Max(EDITOR_MIN_WIDTH, InnerWidth(c) - GRAPH_MIN_WIDTH)
    IN  Min(Max(width, EDITOR_MIN_WIDTH), maxWidth)

\* the component state before mount (useState / useRef initial values)
InitialClient ==
    [ phase |-> "unmounted",
      jsonText |-> DefaultText,
      debouncedJsonText |-> DefaultText,
      lastSyncedJson |-> "",
      nodes |-> <<>>,
      edges |-> <<>>,
      isFullScreen |-> FALSE,
      editorWidth |-> EDITOR_DEFAULT_WIDTH,
      workspaceOwnerUserId |-> Null,
      allowCollaboratorEdits |-> FALSE,
      isRemoteUpdate |-> FALSE,
      hasReceivedInitState |-> FALSE,
      isValid |-> TRUE,
      \* the 500 ms debounce timer, and how many of the pending 100 ms timers
      \* were armed before it and so fire before it
      debounceArmed |-> FALSE,
      debounceAfter |-> 0,
      \* the pending 100 ms timers that clear isRemoteUpdate
      flagTimers |-> 0,
      \* the pending 40 ms timer that emits editorWidth
      widthTimer |-> FALSE,
      \* observation: the 500 ms and 40 ms timers set and neither fired nor
      \* cleared
      debounceTimers |-> 0,
      widthTimers |-> 0,
      \* presence: the ids of onlineUsers, and remoteCursors by id
      onlineUsers |-> {},
      remoteCursors |-> <<>>,
      \* observation: an exception left a socket handler
      uncaught |-> FALSE,
      \* observation: whether jsonText was last set by the user or the
      \* client's own resync ("local") or by a packet ("remote")
      textFrom |-> "local",
      \* observation: whether the init-state of the current connection is
      \* still to come: "first" from mount, "again" from a reconnect, "none"
      \* once it has been handled
      awaiting |-> "none" ]

\* setCanEdit(socketId === ownerUserId || sharedEdit)
CliCanEdit(id, c) == c.workspaceOwnerUserId = id \/ c.allowCollaboratorEdits

ToSrv(type, data, origin) == [type |-> type, data |-> data, origin |-> origin]
\* a client's state and what it has emitted so far in the step
R(c, o) == [c |-> c, out |-> o]
\* F of the value of v, v being evaluated once
Bind(v, F(_)) == CHOOSE res \in {F(x) : x \in {v}} : TRUE

\* a cleanup that leaves the pending timers running
KeepTimeout(pending) == pending
\* clearTimeout in the cleanup of a timer's effect: the timers left pending
ClearTimeout(pending) == 0

\* useEffect(..., [jsonText]) of App: (re)arm the debounce timer
EffDebounce(r0) ==
    Bind(r0, LAMBDA r :
        R([r.c EXCEPT !.debounceArmed = TRUE, !.debounceAfter = r.c.flagTimers,
                      !.debounceTimers = ClearTimeout(@) + 1], r.out))

\* useEffect(..., [isFullScreen])
EffFullScreen(r0) ==
    Bind(r0, LAMBDA r :
        IF ~r.c.hasReceivedInitState \/ r.c.isRemoteUpdate THEN r
        ELSE R(r.c, Append(r.out,
                   ToSrv("state-change", One("isFullScreen", JBool(r.c.isFullScreen)),
                         "local"))))

\* useEffect(..., [editorWidth]): the cleanup clears a pending timer, the
\* effect arms a new one past its two guards
EffEditorWidth(r0) ==
    Bind(r0, LAMBDA r :
        R([r.c EXCEPT !.widthTimer = r.c.hasReceivedInitState /\ ~r.c.isRemoteUpdate,
                      !.widthTimers =
                          IF r.c.hasReceivedInitState /\ ~r.c.isRemoteUpdate
                          THEN ClearTimeout(@) + 1 ELSE ClearTimeout(@)],
          r.out))

\* the guard of the graph -> text effect
GraphToTextRuns(id, c) == CliCanEdit(id, c) /\ Len(c.nodes) > 0 /\ ~c.isRemoteUpdate
\* useEffect(..., [canEdit, nodes, edges]): graph -> text
EffGraphToText(id, r0) ==
    Bind(r0, LAMBDA r :
        IF ~GraphToTextRuns(id, r.c) THEN r
        ELSE Bind(buildJson(r.c.nodes, r.c.edges), LAMBDA newJson :
             LET newText == JSONStringify(newJson)
                 isFormattingOnlyDifference ==
                     CanParse(r.c.jsonText) /\ JSONParse(r.c.jsonText) = newJson
             IN  IF isFormattingOnlyDifference THEN r
                 ELSE IF newText # r.c.jsonText /\ newText # r.c.lastSyncedJson
                 THEN EffDebounce(
                          R([r.c EXCEPT !.lastSyncedJson = newText,
                                        !.jsonText = newText,
                                        !.textFrom = "local"],
                            Append(r.out,
                                   ToSrv("state-change",
                                         One("jsonText", JStr(newText)), "local"))))
                 ELSE r))

\* whether the text -> graph effect emits what it generated
TextToGraphEmits(c) == ~c.isRemoteUpdate
\* a text -> graph effect that sends the text before it parses it
EffTextToGraphSendFirst(id, r0) ==
    Bind(r0, LAMBDA r :
        IF r.c.debouncedJsonText = r.c.lastSyncedJson THEN r
        ELSE R([r.c EXCEPT !.isValid = CanParse(r.c.debouncedJsonText)],
               Append(r.out,
                      ToSrv("state-change",
                            One("jsonText", JStr(r.c.debouncedJsonText)), "local"))))
\* useEffect(..., [debouncedJsonText]): text -> graph, then the graph -> text
\* effect its setNodes / setEdges trigger; the catch sets isValid false
EffTextToGraph(id, r0) ==
    Bind(r0, LAMBDA r :
        IF r.c.debouncedJsonText = r.c.lastSyncedJson THEN r
        ELSE IF ~CanParse(r.c.debouncedJsonText)
        THEN R([r.c EXCEPT !.isValid = FALSE], r.out)
        ELSE Bind(generateGraph(JSONParse(r.c.debouncedJsonText)), LAMBDA g :
             LET c1 == [r.c EXCEPT !.isValid = TRUE,
                                   !.nodes = g.nodes, !.edges = g.edges,
                                   !.lastSyncedJson = r.c.debouncedJsonText]
                 o1 == IF TextToGraphEmits(c1)
                       THEN Append(r.out,
                                ToSrv("state-change",
                                      [ jsonText |-> JStr(c1.debouncedJsonText),
                                        nodes |-> JArr(g.nodes),
                                        edges |-> JArr(g.edges) ],
                                      c1.textFrom))
                       ELSE r.out
             IN  EffGraphToText(id, R(c1, o1))))


\* the truthiness of a JavaScript value
JsTruthy(v) ==
    CASE v.ty = "string" -> v.val # ""
      [] v.ty = "array" -> TRUE
      [] v.ty = "boolean" -> v.val
      [] v.ty = "number" -> v.val # 0
      [] OTHER -> FALSE

\* the first render and the effects that run on mount, in declaration order:
\* the socket effect opens the connection, the text -> graph effect runs on
\* the default document, App arms the debounce timer.  A packet emitted
\* before the transport is up is buffered behind the connection request.
CliMount(id, c) ==
    EffDebounce(
        EffTextToGraph(id,
            R([c EXCEPT !.phase = "mounted", !.awaiting = "first"],
              <<ToSrv("connection", NullData, "local")>>)))

\* socket.on('init-state')
CliInitState(id, c, state) ==
    LET text == IF JsTruthy(state.jsonText) THEN state.jsonText.val ELSE c.jsonText
        width == IF state.editorWidth.ty = "number"
                 THEN clampEditorWidth(id, state.editorWidth.val)
                 ELSE c.editorWidth
        c1 == [c EXCEPT
                 !.isRemoteUpdate = TRUE,
                 !.jsonText = text,
                 !.textFrom = IF text # c.jsonText THEN "remote" ELSE @,
                 !.nodes = IF JsTruthy(state.nodes) THEN state.nodes.val ELSE @,
                 !.edges = IF JsTruthy(state.edges) THEN state.edges.val ELSE @,
                 !.isFullScreen = IF state.isFullScreen.ty = "boolean"
                                  THEN state.isFullScreen.val ELSE @,
                 !.editorWidth = width,
                 !.workspaceOwnerUserId = state.permissions.ownerUserId,
                 !.allowCollaboratorEdits = state.permissions.allowCollaboratorEdits,
                 !.hasReceivedInitState = TRUE,
                 !.awaiting = "none",
                 !.flagTimers = @ + 1]
        \* the effects of the render that follows find isRemoteUpdate set
    IN  Bind(EffGraphToText(id, EffFullScreen(R(c1, <<>>))), LAMBDA r1 :
        Bind(IF width # c.editorWidth THEN EffEditorWidth(r1) ELSE r1, LAMBDA r2 :
             IF text # c.jsonText THEN EffDebounce(r2) ELSE r2))

\* socket.on('state-update')
CliStateUpdate(id, c, data) ==
    LET text == IF "jsonText" \in DOMAIN data THEN data.jsonText.val ELSE c.jsonText
        width == IF Get(data, "editorWidth").ty = "number"
                 THEN clampEditorWidth(id, data.editorWidth.val)
                 ELSE c.editorWidth
        c1 == [c EXCEPT
                 !.isRemoteUpdate = TRUE,
                 !.jsonText = text,
                 !.textFrom = IF text # c.jsonText THEN "remote" ELSE @,
                 !.nodes = IF "nodes" \in DOMAIN data THEN data.nodes.val ELSE @,
                 !.edges = IF "edges" \in DOMAIN data THEN data.edges.val ELSE @,
                 !.isFullScreen = IF Get(data, "isFullScreen").ty = "boolean"
                                  THEN data.isFullScreen.val ELSE @,
                 !.editorWidth = width,
                 !.flagTimers = @ + 1]
    IN  Bind(EffGraphToText(id, EffFullScreen(R(c1, <<>>))), LAMBDA r1 :
        Bind(IF width # c.editorWidth THEN EffEditorWidth(r1) ELSE r1, LAMBDA r2 :
             IF text # c.jsonText THEN EffDebounce(r2) ELSE r2))

\* a handler that takes the sharing switch and leaves the owner as it was
CliPermissionsKeepOwner(id, c, payload) ==
    R([c EXCEPT !.allowCollaboratorEdits = payload.allowCollaboratorEdits], <<>>)
\* socket.on('workspace-permissions'): applyWorkspacePermissions, then the
\* graph -> text effect if canEdit changed
CliPermissions(id, c, payload) ==
    LET c1 == [c EXCEPT
                 !.workspaceOwnerUserId = payload.ownerUserId,
                 !.allowCollaboratorEdits = payload.allowCollaboratorEdits]
    IN  IF CliCanEdit(id, c1) # CliCanEdit(id, c)
        THEN EffGraphToText(id, R(c1, <<>>))
        ELSE R(c1, <<>>)

\* setTimeout(() => { isRemoteUpdateRef.current = false; }, 100)
CliFlagTimer(id, c) ==
    R([c EXCEPT !.isRemoteUpdate = FALSE,
                !.flagTimers = @ - 1,
                !.debounceAfter = Max(0, @ - 1)], <<>>)

\* setTimeout(() => setDebouncedJsonText(jsonText), 500)
CliDebounce(id, c) ==
    LET c1 == [c EXCEPT !.debounceArmed = FALSE,
                        !.debounceTimers = @ - 1,
                        !.debouncedJsonText = c.jsonText]
    IN  IF c.jsonText # c.debouncedJsonText
        THEN EffTextToGraph(id, R(c1, <<>>))
        ELSE R(c1, <<>>)

\* the 40 ms timer of the editorWidth effect
CliWidthTimer(id, c) ==
    R([c EXCEPT !.widthTimer = FALSE, !.widthTimers = @ - 1],
      <<ToSrv("state-change", One("editorWidth", JNum(c.editorWidth)), "local")>>)

\* Editor onChange
CliType(id, c, text) ==
    EffDebounce(R([c EXCEPT !.jsonText = text, !.textFrom = "local"], <<>>))

\* onClick={() => setIsFullScreen(!isFullScreen)}
CliToggleFullScreen(id, c) ==
    EffFullScreen(R([c EXCEPT !.isFullScreen = ~@], <<>>))

\* handleResizeMove
CliResize(id, c, width) ==
    EffEditorWidth(R([c EXCEPT !.editorWidth = clampEditorWidth(id, width)], <<>>))

\* toggleSharedEditAccess
CliToggleSharedEditAccess(id, c) ==
    R([c EXCEPT !.allowCollaboratorEdits = ~@],
      <<ToSrv("set-edit-access",
              One("allowCollaboratorEdits", JBool(~c.allowCollaboratorEdits)),
              "local")>>)

\* the cleanup of the socket effect and of the timers' effects
CliUnmount(id, c) ==
    R([c EXCEPT !.phase = "closed", !.hasReceivedInitState = FALSE,
                !.awaiting = "none",
                !.debounceArmed = FALSE, !.debounceAfter = 0,
                !.debounceTimers = ClearTimeout(@),
                !.widthTimer = FALSE, !.widthTimers = ClearTimeout(@)],
      <<ToSrv("disconnect", NullData, "local")>>)

\* the transport of the connection closed and the socket, which io() made
\* with reconnection on, opens a new one: the socket effect does not run
\* again, so no ref and no state of the component is reset; what the client
\* emits from now on is buffered behind the new connection request
CliReconnect(id, c) ==
    R([c EXCEPT !.awaiting = "again"], <<ToSrv("connection", NullData, "local")>>)

(***************************************************************************)
(* SpecSync: the clients, the server and the channels between them.  The   *)
(* transport is reliable and FIFO in each direction of each connection.    *)
(***************************************************************************)
\* no client exists
SyncIdle ==
    /\ cli = <<>>
    /\ toSrv = <<>>
    /\ toCli = <<>>
    /\ edits = 0

\* every client is yet to mount
SyncInit ==
    /\ cli = [c \in Clients |-> InitialClient]
    /\ toSrv = [c \in Clients |-> <<>>]
    /\ toCli = [c \in Clients |-> <<>>]
    /\ edits = 0

\* a client step: its new state, and what it emitted behind what is under way
CliStep(id, r0) ==
    \E r \in {r0} :
        /\ Len(toSrv[id]) + Len(r.out) <= MaxInFlight
        /\ cli' = [cli EXCEPT ![id] = r.c]
        /\ toSrv' = [toSrv EXCEPT ![id] = @ \o r.out]
        /\ UNCHANGED <<srvVars, rtVars, voiceVars>>

Gesture == edits < MaxEdits /\ edits' = edits + 1

Mount(id) ==
    /\ cli[id].phase = "unmounted"
    /\ CliStep(id, CliMount(id, cli[id]))
    /\ UNCHANGED <<toCli, edits>>

Unmount(id) ==
    /\ cli[id].phase = "mounted"
    /\ Gesture
    /\ CliStep(id, CliUnmount(id, cli[id]))
    /\ toCli' = [toCli EXCEPT ![id] = <<>>]

TypeText(id, text) ==
    /\ cli[id].phase = "mounted"
    /\ CliCanEdit(id, cli[id])
    /\ text # cli[id].jsonText
    /\ Gesture
    /\ CliStep(id, CliType(id, cli[id], text))
    /\ UNCHANGED toCli

ToggleFullScreen(id) ==
    /\ cli[id].phase = "mounted"
    /\ Gesture
    /\ CliStep(id, CliToggleFullScreen(id, cli[id]))
    /\ UNCHANGED toCli

Resize(id, width) ==
    /\ cli[id].phase = "mounted"
    /\ ~cli[id].isFullScreen
    /\ clampEditorWidth(id, width) # cli[id].editorWidth
    /\ Gesture
    /\ CliStep(id, CliResize(id, cli[id], width))
    /\ UNCHANGED toCli

ToggleSharedEditAccess(id) ==
    /\ cli[id].phase = "mounted"
    /\ cli[id].workspaceOwnerUserId = id
    /\ Gesture
    /\ CliStep(id, CliToggleSharedEditAccess(id, cli[id]))
    /\ UNCHANGED toCli

FlagTimer(id) ==
    /\ cli[id].phase = "mounted"
    /\ cli[id].flagTimers > 0
    /\ CliStep(id, CliFlagTimer(id, cli[id]))
    /\ UNCHANGED <<toCli, edits>>

Debounce(id) ==
    /\ cli[id].phase = "mounted"
    /\ cli[id].debounceArmed
    /\ cli[id].debounceAfter = 0
    /\ CliStep(id, CliDebounce(id, cli[id]))
    /\ UNCHANGED <<toCli, edits>>

WidthTimer(id) ==
    /\ cli[id].phase = "mounted"
    /\ cli[id].widthTimer
    /\ CliStep(id, CliWidthTimer(id, cli[id]))
    /\ UNCHANGED <<toCli, edits>>

\* the client handles the next packet from the server
Receive(id) ==
    /\ cli[id].phase = "mounted"
    /\ toCli[id] # <<>>
    /\ LET m == Head(toCli[id])
       IN  CliStep(id,
               CASE m.type = "init-state" -> CliInitState(id, cli[id], m.payload)
                 [] m.type = "state-update" -> CliStateUpdate(id, cli[id], m.payload)
                 [] m.type = "workspace-permissions" ->
                        CliPermissions(id, cli[id], m.payload))
    /\ toCli' = [toCli EXCEPT ![id] = Tail(@)]
    /\ UNCHANGED edits

\* the packets of the server the clients of the model have handlers for
SyncTypes == {"init-state", "state-update", "workspace-permissions"}
SrvHandle(w, sid, m) ==
    CASE m.type = "connection" -> SrvConnection(w, sid)
      [] m.type = "disconnect" -> SrvDisconnect(w, sid)
      [] m.type = "set-edit-access" -> SrvSetEditAccess(w, sid, m.data)
      [] m.type = "state-change" -> SrvStateChange(w, sid, m.data)

\* the server handles the next packet of one connection; what it emits to
\* a socket that is closed is lost
Serve(id) ==
    /\ toSrv[id] # <<>>
    /\ \E m \in {Head(toSrv[id])} :
       \E r \in {SrvHandle(ws, id, m)} :
          LET sent(c) == IF cli[c].phase = "mounted"
                         THEN SelectSeq(r.out,
                                  LAMBDA o : o.to = c /\ o.type \in SyncTypes)
                         ELSE <<>>
          IN  /\ \A c \in Clients : Len(toCli[c]) + Len(sent(c)) <= MaxInFlight
              /\ ws' = r.ws
              /\ out' = r.out
              /\ ev' = Event(m.type, id, m.data)
              /\ toCli' = [c \in Clients |-> toCli[c] \o sent(c)]
    /\ toSrv' = [toSrv EXCEPT ![id] = Tail(@)]
    /\ UNCHANGED <<cli, edits, rtVars, voiceVars>>

\* the connection of a client drops and both ends see it close: the server
\* handles "disconnect" for the old socket, the packets under way in either
\* direction are lost, and the client's socket asks for a new connection
Reconnect(id) ==
    /\ cli[id].phase = "mounted"
    /\ id \in MemberIds(ws)
    /\ Gesture
    /\ \E r \in {SrvDisconnect(ws, id)} :
       \E rc \in {CliReconnect(id, cli[id])} :
          LET sent(c) == IF cli[c].phase = "mounted" /\ c # id
                         THEN SelectSeq(r.out,
                                  LAMBDA o : o.to = c /\ o.type \in SyncTypes)
                         ELSE <<>>
          IN  /\ \A c \in Clients : Len(toCli[c]) + Len(sent(c)) <= MaxInFlight
              /\ ws' = r.ws
              /\ out' = r.out
              /\ ev' = Event("disconnect", id, NullData)
              /\ toCli' = [c \in Clients |->
                              IF c = id THEN <<>> ELSE toCli[c] \o sent(c)]
              /\ cli' = [cli EXCEPT ![id] = rc.c]
              /\ toSrv' = [toSrv EXCEPT ![id] = rc.out]
    /\ UNCHANGED <<rtVars, voiceVars>>

SyncNext ==
    \/ \E c \in Clients : Mount(c)
    \/ \E c \in Clients : Reconnect(c)
    \/ \E c \in Clients : Unmount(c)
    \/ \E c \in Clients, text \in TypedTexts : TypeText(c, text)
    \/ \E c \in Clients : ToggleFullScreen(c)
    \/ \E c \in Clients, width \in ResizeWidths : Resize(c, width)
    \/ \E c \in Clients : ToggleSharedEditAccess(c)
    \/ \E c \in Clients : FlagTimer(c)
    \/ \E c \in Clients : Debounce(c)
    \/ \E c \in Clients : WidthTimer(c)
    \/ \E c \in Clients : Receive(c)
    \/ \E c \in Clients : Serve(c)


(***************************************************************************)
(* Voice: the mesh of RTCPeerConnections (App.tsx:718-871, 1034-1106) and  *)
(* the server's relay (server.mjs:206-245).                                *)
(*                                                                         *)
(* An RTCPeerConnection is the browser's: of it the model keeps what the   *)
(* code reads or relies on.  signalingState follows the WebRTC state       *)
(* machine; addIceCandidate is rejected while the connection has no remote *)
(* description; setRemoteDescription of an answer is rejected unless the   *)
(* state is have-local-offer; a remote description that is applied fires   *)
(* ontrack for the peer's audio track; setRemoteDescription of an offer in *)
(* have-local-offer either rolls the local offer back or is rejected,      *)
(* depending on the browser.  The awaited calls of a handler complete      *)
(* before the next event is dispatched.                                    *)
(***************************************************************************)
\* the voice gestures of one run, the candidates one connection gathers
MaxVoiceOps == 4
MaxCandidates == 2

\* new RTCPeerConnection(...), then pc.addTrack for the tracks of the local
\* stream if there is one; serial tells one object from another
NewPeerConnection(serial, localStream) ==
    [ serial |-> serial,
      signalingState |-> "stable",
      hasRemote |-> FALSE,
      tracks |-> IF localStream THEN 1 ELSE 0,
      ice |-> <<>>,
      gathered |-> 0 ]

\* pc.addIceCandidate for each of cands: rejected without a remote
\* description, and when the browser cannot apply the candidate (applies is
\* the browser's verdict on what the peer sent)
addIceCandidate(pc, cands, applies) ==
    [ pc |-> IF pc.hasRemote /\ applies THEN [pc EXCEPT !.ice = @ \o cands] ELSE pc,
      rejected |-> ~pc.hasRemote \/ ~applies ]

\* the voice refs of a client before it has enabled voice
InitialVoice ==
    [ isVoiceEnabled |-> FALSE,
      localAudioStream |-> FALSE,
      peerConnections |-> [p \in {} |-> p],
      \* the remote ids that have an Audio element (pc.ontrack)
      remoteAudioElements |-> {},
      pendingIceCandidates |-> [p \in Clients |-> <<>>],
      \* voiceError, "none" for null
      voiceError |-> "none",
      \* the getUserMedia calls that have not settled
      micRequests |-> 0,
      \* whether the component is mounted, and the state of socketRef.current
      mounted |-> TRUE,
      socket |-> "connected",
      \* observation: the RTCPeerConnections created so far
      created |-> 0 ]

clearVoicePeers(v) ==
    [v EXCEPT !.peerConnections = [p \in {} |-> p],
              !.remoteAudioElements = {},
              !.pendingIceCandidates = [p \in Clients |-> <<>>]]

\* a teardown that closes every connection
removeVoicePeerAll(v, remoteUserId) ==
    [v EXCEPT !.peerConnections = [p \in {} |-> p],
              !.remoteAudioElements = {},
              !.pendingIceCandidates = [p \in DOMAIN @ |-> <<>>]]
removeVoicePeer(v, remoteUserId) ==
    [v EXCEPT !.peerConnections = [p \in DOMAIN @ \ {remoteUserId} |-> @[p]],
              !.remoteAudioElements = @ \ {remoteUserId},
              !.pendingIceCandidates[remoteUserId] = <<>>]

\* the function without its test for an existing connection
createVoicePeerConnectionAlways(v, remoteUserId) ==
    LET pc == NewPeerConnection(v.created + 1, v.localAudioStream)
        flushed == addIceCandidate(pc, v.pendingIceCandidates[remoteUserId], TRUE).pc
    IN  [v EXCEPT !.peerConnections =
                      [p \in DOMAIN @ \cup {remoteUserId} |->
                          IF p = remoteUserId THEN flushed ELSE @[p]],
                  !.pendingIceCandidates[remoteUserId] = <<>>,
                  !.created = @ + 1]
\* the connection it returns is peerConnections[remoteUserId] of the result
createVoicePeerConnection(v, remoteUserId) ==
    IF remoteUserId \in DOMAIN v.peerConnections THEN v
    ELSE LET pc == NewPeerConnection(v.created + 1, v.localAudioStream)
             \* pending.forEach(c => void pc.addIceCandidate(c).catch(() => {}))
             flushed == addIceCandidate(pc, v.pendingIceCandidates[remoteUserId], TRUE).pc
         IN  [v EXCEPT !.peerConnections =
                           [p \in DOMAIN @ \cup {remoteUserId} |->
                               IF p = remoteUserId THEN flushed ELSE @[p]],
                       !.pendingIceCandidates[remoteUserId] = <<>>,
                       !.created = @ + 1]

VoiceMsg(type, peer, candidate) == [type |-> type, peer |-> peer, candidate |-> candidate]

createAndSendVoiceOffer(v, remoteUserId) ==
    IF ~v.isVoiceEnabled THEN R(v, <<>>)
    ELSE Bind(createVoicePeerConnection(v, remoteUserId), LAMBDA v1 :
         IF v1.peerConnections[remoteUserId].signalingState # "stable"
         THEN R(v1, <<>>)
         ELSE R([v1 EXCEPT !.peerConnections[remoteUserId].signalingState =
                               "have-local-offer"],
                <<VoiceMsg("voice-offer", remoteUserId, 0)>>))

ErrUnsupported == "Audio capture is not supported in this browser."
ErrMicrophone == "Microphone access is required for voice chat."

\* socketRef.current?.emit: a socket that was disconnected sends nothing
VoiceEmit(v, msgs) == IF v.socket = "connected" THEN msgs ELSE <<>>

\* startVoiceChat up to its await of getUserMedia; supported: whether
\* navigator.mediaDevices.getUserMedia exists
startVoiceChatRequest(v, supported) ==
    IF v.isVoiceEnabled THEN v
    ELSE IF ~supported THEN [v EXCEPT !.voiceError = ErrUnsupported]
    ELSE [v EXCEPT !.voiceError = "none", !.micRequests = @ + 1]

\* startVoiceChat from the await on; granted: whether getUserMedia resolved
startVoiceChatResume(v, granted) ==
    IF granted
    THEN R([v EXCEPT !.micRequests = @ - 1,
                     !.localAudioStream = TRUE,
                     !.isVoiceEnabled = TRUE],
           VoiceEmit(v, <<VoiceMsg("voice-join", Null, 0)>>))
    ELSE R([v EXCEPT !.micRequests = @ - 1, !.voiceError = ErrMicrophone], <<>>)

\* startVoiceChat with getUserMedia granted at once
startVoiceChat(v) ==
    IF v.isVoiceEnabled THEN R(v, <<>>)
    ELSE startVoiceChatResume(startVoiceChatRequest(v, TRUE), TRUE)

stopVoiceChat(v, notifyOthers) ==
    R(clearVoicePeers([v EXCEPT !.localAudioStream = FALSE,
                                !.isVoiceEnabled = FALSE,
                                !.voiceError = "none"]),
      IF notifyOthers /\ v.isVoiceEnabled
      THEN VoiceEmit(v, <<VoiceMsg("voice-leave", Null, 0)>>) ELSE <<>>)

\* the cleanup of the socket effect: stopVoiceChat(false); socket.disconnect()
SocketCleanup(v) == [stopVoiceChat(v, FALSE).c EXCEPT !.socket = "disconnected"]
\* the socket effect for a workspace id: stopVoiceChat(false);
\* setVoiceError(null); socketRef.current = io(...)
SocketSetup(v) == [stopVoiceChat(v, FALSE).c EXCEPT !.socket = "connected"]

\* socket.on('voice-user-joined')
OnVoiceUserJoined(id, v, m) ==
    IF ~v.isVoiceEnabled \/ m.peer = id THEN R(v, <<>>)
    ELSE createAndSendVoiceOffer(v, m.peer)

\* socket.on('voice-user-left')
OnVoiceUserLeft(id, v, m) == R(removeVoicePeer(v, m.peer), <<>>)

\* socket.on('user-disconnected'), its voice part
OnUserDisconnected(id, v, m) == R(removeVoicePeer(v, m.peer), <<>>)

ClosingStates == {"failed", "disconnected", "closed"}
\* pc.onconnectionstatechange of the connection for remoteUserId; a
\* connection that was removed has no handler any more
OnConnectionStateChange(id, v, m) ==
    IF m.peer \in DOMAIN v.peerConnections /\ m.state \in ClosingStates
    THEN R(removeVoicePeer(v, m.peer), <<>>)
    ELSE R(v, <<>>)

\* socket.on('voice-offer'); rollback: whether the browser rolls a pending
\* local offer back when it is given a remote offer
OnVoiceOffer(id, v, m, rollback) ==
    IF ~v.isVoiceEnabled THEN R(v, <<>>)
    ELSE Bind(createVoicePeerConnection(v, m.peer), LAMBDA v1 :
         IF v1.peerConnections[m.peer].signalingState = "have-local-offer" /\ ~rollback
         THEN R(removeVoicePeer(v1, m.peer), <<>>)
         ELSE R([v1 EXCEPT !.peerConnections[m.peer].signalingState = "stable",
                           !.peerConnections[m.peer].hasRemote = TRUE,
                           !.remoteAudioElements = @ \cup {m.peer}],
                <<VoiceMsg("voice-answer", m.peer, 0)>>))

\* socket.on('voice-answer')
OnVoiceAnswer(id, v, m) ==
    IF m.peer \notin DOMAIN v.peerConnections THEN R(v, <<>>)
    ELSE IF v.peerConnections[m.peer].signalingState # "have-local-offer"
    THEN R(removeVoicePeer(v, m.peer), <<>>)
    ELSE R([v EXCEPT !.peerConnections[m.peer].signalingState = "stable",
                     !.peerConnections[m.peer].hasRemote = TRUE,
                     !.remoteAudioElements = @ \cup {m.peer}], <<>>)

\* socket.on('voice-ice-candidate')
OnVoiceIceCandidate(id, v, m, applies) ==
    IF m.peer \notin DOMAIN v.peerConnections
    THEN R([v EXCEPT !.pendingIceCandidates[m.peer] = Append(@, m.candidate)], <<>>)
    ELSE Bind(addIceCandidate(v.peerConnections[m.peer], <<m.candidate>>, applies),
              LAMBDA a :
         IF a.rejected
         THEN R([v EXCEPT !.pendingIceCandidates[m.peer] = Append(@, m.candidate)], <<>>)
         ELSE R([v EXCEPT !.peerConnections[m.peer] = a.pc], <<>>))

\* pc.onicecandidate: a connection with a local description gathers a candidate
OnIceCandidate(id, v, remoteUserId) ==
    R([v EXCEPT !.peerConnections[remoteUserId].gathered = @ + 1],
      <<VoiceMsg("voice-ice-candidate", remoteUserId,
                 v.peerConnections[remoteUserId].gathered + 1)>>)

\* the server's voice handlers: voice-join and voice-leave go to the other
\* members, offer, answer and candidate to the member they name
SrvVoice(w, sid, m) ==
    CASE m.type = "voice-join" ->
             LET t == StateUpdateTargets(w, sid)
             IN  [i \in DOMAIN t |-> Msg("voice-user-joined", t[i], VoiceMsg(m.type, sid, 0))]
      [] m.type = "voice-leave" ->
             LET t == StateUpdateTargets(w, sid)
             IN  [i \in DOMAIN t |-> Msg("voice-user-left", t[i], VoiceMsg(m.type, sid, 0))]
      [] OTHER ->
             LET f == RelayedField(m.type)
                 relayed == SrvVoiceRelay(w, sid, m.type,
                                [targetUserId |-> JStr(m.peer)] @@ One(f, m.candidate)).out
             IN  [i \in DOMAIN relayed |->
                     Msg(m.type, relayed[i].to,
                         VoiceMsg(m.type, relayed[i].payload.fromUserId,
                                  relayed[i].payload[f]))]

(***************************************************************************)
(* SpecVoice: every client has joined the workspace and stays connected.   *)
(***************************************************************************)
\* no client exists
VoiceIdle ==
    /\ vc = <<>>
    /\ vToSrv = <<>>
    /\ vToCli = <<>>
    /\ vops = 0

RECURSIVE JoinedWorkspace(_)
\* the workspace once clients 1..n have connected
JoinedWorkspace(n) ==
    IF n = 0 THEN createWorkspaceState
    ELSE SrvConnection(JoinedWorkspace(n - 1), n).ws

VoiceInit ==
    /\ ws = JoinedWorkspace(NumClients)
    /\ ev = Event("none", Null, NullData)
    /\ out = <<>>
    /\ vc = [c \in Clients |-> InitialVoice]
    /\ vToSrv = [c \in Clients |-> <<>>]
    /\ vToCli = [c \in Clients |-> <<>>]
    /\ vops = 0

\* a client step: its new voice state, and what it emitted
VoiceStep(id, r0) ==
    \E r \in {r0} :
        /\ vc' = [vc EXCEPT ![id] = r.c]
        /\ vToSrv' = [vToSrv EXCEPT ![id] = @ \o r.out]
        /\ UNCHANGED <<srvVars, rtVars, syncVars>>

StartVoice(id) ==
    /\ vc[id].mounted
    /\ ~vc[id].isVoiceEnabled
    /\ vops < MaxVoiceOps
    /\ vops' = vops + 1
    /\ VoiceStep(id, startVoiceChat(vc[id]))
    /\ UNCHANGED vToCli

StopVoice(id) ==
    /\ vc[id].mounted
    /\ vc[id].isVoiceEnabled
    /\ vops < MaxVoiceOps
    /\ vops' = vops + 1
    /\ VoiceStep(id, stopVoiceChat(vc[id], TRUE))
    /\ UNCHANGED vToCli

IceCandidate(id, remoteUserId) ==
    /\ remoteUserId \in DOMAIN vc[id].peerConnections
    /\ LET pc == vc[id].peerConnections[remoteUserId]
       IN  /\ pc.signalingState = "have-local-offer" \/ pc.hasRemote
           /\ pc.gathered < MaxCandidates
    /\ VoiceStep(id, OnIceCandidate(id, vc[id], remoteUserId))
    /\ UNCHANGED <<vToCli, vops>>

\* the client handles the next signalling packet from the server; rollback
\* is what the browser decides: for an offer that meets a local offer
\* whether it rolls back, for a candidate whether it can apply it
VoiceReceive(id, rollback) ==
    /\ vToCli[id] # <<>>
    /\ LET m == Head(vToCli[id])
       IN  VoiceStep(id,
               CASE m.type = "voice-user-joined" -> OnVoiceUserJoined(id, vc[id], m.payload)
                 [] m.type = "voice-user-left" -> OnVoiceUserLeft(id, vc[id], m.payload)
                 [] m.type = "voice-offer" -> OnVoiceOffer(id, vc[id], m.payload, rollback)
                 [] m.type = "voice-answer" -> OnVoiceAnswer(id, vc[id], m.payload)
                 [] m.type = "voice-ice-candidate" ->
                        OnVoiceIceCandidate(id, vc[id], m.payload, rollback)
                 [] m.type = "user-disconnected" ->
                        OnUserDisconnected(id, vc[id], m.payload)
                 [] m.type = "connectionstatechange" ->
                        OnConnectionStateChange(id, vc[id], m.payload))
    /\ vToCli' = [vToCli EXCEPT ![id] = Tail(@)]
    /\ UNCHANGED vops

\* the server handles the next signalling packet of one connection
VoiceServe(id) ==
    /\ vToSrv[id] # <<>>
    /\ \E m \in {Head(vToSrv[id])} :
       \E o \in {SrvVoice(ws, id, m)} :
          /\ out' = o
          /\ ev' = Event(m.type, id, NullData)
          /\ vToCli' = [c \in Clients |->
                          vToCli[c] \o SelectSeq(o, LAMBDA x : x.to = c)]
    /\ vToSrv' = [vToSrv EXCEPT ![id] = Tail(@)]
    /\ UNCHANGED <<ws, vc, vops, rtVars, syncVars>>

VoiceNext ==
    \/ \E c \in Clients : StartVoice(c)
    \/ \E c \in Clients : StopVoice(c)
    \/ \E c \in Clients, p \in Clients : IceCandidate(c, p)
    \/ \E c \in Clients, rollback \in BOOLEAN : VoiceReceive(c, rollback)
    \/ \E c \in Clients : VoiceServe(c)

(***************************************************************************)
(* SpecCancel: the voice button, the microphone request, which settles     *)
(* after an await, and the socket effect, which is cleaned up when the     *)
(* component unmounts and cleaned up and run again when the workspace id   *)
(* changes.                                                                *)
(***************************************************************************)
\* the microphone requests one client has pending
MaxMicRequests == 2

\* toggleVoiceChat while voice is off
RequestMic(id, supported) ==
    /\ vc[id].mounted
    /\ ~vc[id].isVoiceEnabled
    /\ vc[id].micRequests < MaxMicRequests
    /\ vops < MaxVoiceOps
    /\ vops' = vops + 1
    /\ VoiceStep(id, R(startVoiceChatRequest(vc[id], supported), <<>>))
    /\ UNCHANGED vToCli

\* getUserMedia settles
MicSettles(id, granted) ==
    /\ vc[id].micRequests > 0
    /\ VoiceStep(id, startVoiceChatResume(vc[id], granted))
    /\ UNCHANGED <<vToCli, vops>>

\* the component unmounts
VoiceUnmount(id) ==
    /\ vc[id].mounted
    /\ VoiceStep(id, R([SocketCleanup(vc[id]) EXCEPT !.mounted = FALSE], <<>>))
    /\ UNCHANGED <<vToCli, vops>>

\* the workspace id changes: cleanup, then the effect for the new id
SwitchWorkspace(id) ==
    /\ vc[id].mounted
    /\ vops < MaxVoiceOps
    /\ vops' = vops + 1
    /\ vc' = [vc EXCEPT ![id] = SocketSetup(SocketCleanup(vc[id]))]
    /\ vToSrv' = [vToSrv EXCEPT ![id] = <<>>]
    /\ UNCHANGED <<vToCli, srvVars, rtVars, syncVars>>

CancelNext ==
    \/ \E c \in Clients, supported \in BOOLEAN : RequestMic(c, supported)
    \/ \E c \in Clients, granted \in BOOLEAN : MicSettles(c, granted)
    \/ \E c \in Clients : StopVoice(c)
    \/ \E c \in Clients : VoiceUnmount(c)
    \/ \E c \in Clients : SwitchWorkspace(c)

(***************************************************************************)
(* SpecTeardown: client 1 in a voice state with up to NumSessions - 1      *)
(* peers, and the notices and connection events that end a peer.           *)
(***************************************************************************)
RemoteIds == Sessions \ {1}
\* what a client holds for one peer: nothing, queued candidates, a
\* connection with its offer sent, a negotiated connection with its audio
PeerShapes == {"none", "queued", "offered", "negotiated"}
PeerConnectionOf(p, shape) ==
    IF shape = "offered"
    THEN [NewPeerConnection(p, TRUE) EXCEPT !.signalingState = "have-local-offer"]
    ELSE [NewPeerConnection(p, TRUE) EXCEPT !.hasRemote = TRUE, !.ice = <<1>>]
VoiceStateOf(shapes) ==
    [ isVoiceEnabled |-> TRUE,
      localAudioStream |-> TRUE,
      peerConnections |->
          [p \in {q \in RemoteIds : shapes[q] \in {"offered", "negotiated"}} |->
              PeerConnectionOf(p, shapes[p])],
      remoteAudioElements |-> {q \in RemoteIds : shapes[q] = "negotiated"},
      pendingIceCandidates |->
          [p \in Sessions |-> IF p \in RemoteIds /\ shapes[p] = "queued"
                              THEN <<1, 2>> ELSE <<>>],
      voiceError |-> "none",
      micRequests |-> 0,
      mounted |-> TRUE,
      socket |-> "connected",
      created |-> Cardinality(RemoteIds) ]
TeardownEvents ==
    { Msg(t, 1, VoiceMsg(t, p, 0)) :
          t \in {"voice-user-left", "user-disconnected"}, p \in RemoteIds }
    \cup { Msg("connectionstatechange", 1, [peer |-> p, state |-> st]) :
              p \in RemoteIds, st \in ClosingStates \cup {"connected"} }

TeardownInit ==
    /\ ws = JoinedWorkspace(NumSessions)
    /\ ev = Event("none", Null, NullData)
    /\ out = <<>>
    /\ \E shapes \in [RemoteIds -> PeerShapes] :
          vc = [c \in Clients |-> IF c = 1 THEN VoiceStateOf(shapes) ELSE InitialVoice]
    /\ \E e1 \in TeardownEvents, e2 \in TeardownEvents, n \in 1..2 :
          vToCli = [c \in Clients |-> IF c = 1 THEN SubSeq(<<e1, e2>>, 1, n) ELSE <<>>]
    /\ vToSrv = [c \in Clients |-> <<>>]
    /\ vops = 0

TeardownNext == \E c \in Clients, rollback \in BOOLEAN : VoiceReceive(c, rollback)

(***************************************************************************)
(* SpecEdit: the canvas gestures of a client that may edit               *)
(* (App.tsx:146-221, 336-378, 1169-1196, 1396-1411) and the state-update  *)
(* handler (App.tsx:1008-1016), applied to the graph generateGraph made    *)
(* of a document.  Math.random ids are fresh names numbered by the         *)
(* gesture; a selection is an input of deleteSelected.                     *)
(***************************************************************************)
EditDocuments == {DefaultDoc, MixedArrayDoc, RootKeyDoc, VNum(1)}

S_node == <<"n", "o", "d", "e", "-">>
S_key == <<"k", "e", "y", "-">>
S_newKey == <<"n", "e", "w", "K", "e", "y">>
S_newValue == <<"n", "e", "w", "V", "a", "l", "u", "e">>
S_new_key == <<"n", "e", "w", "-", "k", "e", "y">>
S_key1 == <<"k", "e", "y", "1">>
S_rfEdge == <<"r", "e", "a", "c", "t", "f", "l", "o", "w", "_", "_",
              "e", "d", "g", "e", "-">>

\* `node-${Math.random()...}` and `key-${Math.random()...}`
FreshNodeId(n) == S_node \o NumToStr(n)
FreshRowId(n) == S_key \o NumToStr(n)

\* { id, key: 'newKey', value: 'newValue', type: 'primitive', primitiveType: 'string' }
NewRow(id) ==
    [ id |-> id, key |-> S_newKey, value |-> S_newValue, type |-> "primitive",
      primitiveType |-> "string", isColor |-> FALSE ]

\* updateNodeData: nds.map(node => node.id === id ? {...node, rows} : node)
updateNodeData(g, id, newRows) ==
    [g EXCEPT !.nodes = [i \in DOMAIN @ |->
        IF @[i].id = id THEN [@[i] EXCEPT !.rows = newRows] ELSE @[i]]]

addRow(g, i, n) ==
    updateNodeData(g, g.nodes[i].id, Append(g.nodes[i].rows, NewRow(FreshRowId(n))))

\* data.rows.filter(r => r.id !== rowId), then updateNodeData
deleteRow(g, i, rowId) ==
    updateNodeData(g, g.nodes[i].id,
                   SelectSeq(g.nodes[i].rows, LAMBDA r : r.id # rowId))

\* setNodes(nds => nds.filter(n => n.id !== id))
onDelete(g, id) ==
    [g EXCEPT !.nodes = SelectSeq(@, LAMBDA n : n.id # id)]

\* setEdges(eds => eds.filter(e => e.id !== id))
onEdgeClick(g, id) ==
    [g EXCEPT !.edges = SelectSeq(@, LAMBDA e : e.id # id)]

\* the first edge of that id: eds.find(e => e.id === id)
FindEdge(edges, id) ==
    edges[CHOOSE i \in DOMAIN edges :
              /\ edges[i].id = id
              /\ \A j \in 1..(i - 1) : edges[j].id # id]

onSplitEdge(g, id, n) ==
    LET newNodeId == FreshNodeId(n)
        newNode == MakeNode(newNodeId, <<NewRow(S_new_key)>>, FALSE, FALSE)
        nodes == Append(g.nodes, newNode)
    IN  IF ~\E i \in DOMAIN g.edges : g.edges[i].id = id
        THEN [g EXCEPT !.nodes = nodes]
        ELSE LET currentEdge == FindEdge(g.edges, id)
             IN  [ nodes |-> nodes,
                   edges |-> SelectSeq(g.edges, LAMBDA e : e.id # id)
                             \o << [currentEdge EXCEPT
                                      !.id = <<"e", "-">> \o currentEdge.source
                                             \o <<"-">> \o newNodeId,
                                      !.target = newNodeId],
                                   [currentEdge EXCEPT
                                      !.id = <<"e", "-">> \o newNodeId
                                             \o <<"-">> \o currentEdge.target,
                                      !.source = newNodeId,
                                      !.sourceHandle = S_new_key] >> ]

\* addEdge of React Flow: nothing without both ends, nothing if the same
\* connection is already drawn
addEdge(source, sourceHandle, target, edges) ==
    IF ~Truthy(source) \/ ~Truthy(target) THEN edges
    ELSE IF \E i \in DOMAIN edges :
               /\ edges[i].source = source
               /\ edges[i].target = target
               /\ edges[i].sourceHandle = sourceHandle
         THEN edges
         ELSE Append(edges,
                     [ id |-> S_rfEdge \o source \o sourceHandle \o <<"-">> \o target,
                       source |-> source, sourceHandle |-> sourceHandle,
                       target |-> target, label |-> NoStr ])

onConnect(g, source, sourceHandle, target) ==
    [g EXCEPT !.edges = addEdge(source, sourceHandle, target, @)]

onAddTable(g, n) ==
    [g EXCEPT !.nodes =
        Append(@, MakeNode(FreshNodeId(n), <<NewRow(S_key1)>>, FALSE, FALSE))]

\* getNodes().filter(n => !n.selected), getEdges().filter(e => !e.selected)
deleteSelected(g, selNodes, selEdges) ==
    IF selNodes = {} /\ selEdges = {} THEN g
    ELSE [ nodes |-> SelectSeq(g.nodes, LAMBDA n : n.id \notin selNodes),
           edges |-> SelectSeq(g.edges, LAMBDA e : e.id \notin selEdges) ]

\* socket.on('state-update'): nodes and edges are replaced when present
ApplyStateUpdate(g, data) ==
    [ nodes |-> IF "nodes" \in DOMAIN data THEN data.nodes ELSE g.nodes,
      edges |-> IF "edges" \in DOMAIN data THEN data.edges ELSE g.edges ]

EditInit ==
    /\ rtIn \in EditDocuments
    /\ rtGraph = generateGraph(rtIn)
    /\ rtOut = VNull
    /\ rtPc = "graph"

EditTo(g) ==
    /\ rtPc = "graph"
    /\ edits < MaxEdits
    /\ edits' = edits + 1
    /\ rtGraph' = g
    /\ UNCHANGED <<rtIn, rtOut, rtPc, cli, toSrv, toCli>>
    /\ UNCHANGED <<srvVars, voiceVars>>

NodeIds(g) == {g.nodes[i].id : i \in DOMAIN g.nodes}
EdgeIds(g) == {g.edges[i].id : i \in DOMAIN g.edges}

AddRow == \E i \in DOMAIN rtGraph.nodes : EditTo(addRow(rtGraph, i, edits))

DeleteRow ==
    \E i \in DOMAIN rtGraph.nodes : \E j \in DOMAIN rtGraph.nodes[i].rows :
        EditTo(deleteRow(rtGraph, i, rtGraph.nodes[i].rows[j].id))

DeleteNode == \E id \in NodeIds(rtGraph) : EditTo(onDelete(rtGraph, id))

DeleteEdge == \E id \in EdgeIds(rtGraph) : EditTo(onEdgeClick(rtGraph, id))

SplitEdge == \E id \in EdgeIds(rtGraph) : EditTo(onSplitEdge(rtGraph, id, edits))

\* a connection is dragged from the handle of a row to the handle of a node
DrawEdge ==
    \E i \in DOMAIN rtGraph.nodes, t \in DOMAIN rtGraph.nodes :
        \E j \in DOMAIN rtGraph.nodes[i].rows :
            EditTo(onConnect(rtGraph, rtGraph.nodes[i].id,
                             rtGraph.nodes[i].rows[j].id, rtGraph.nodes[t].id))

AddTable == EditTo(onAddTable(rtGraph, edits))

\* one node, one edge, or one of each is selected
DeleteSelected ==
    \E ns \in {{}} \cup {{id} : id \in NodeIds(rtGraph)},
       es \in {{}} \cup {{id} : id \in EdgeIds(rtGraph)} :
        /\ ns # {} \/ es # {}
        /\ EditTo(deleteSelected(rtGraph, ns, es))

\* what a peer showing the same graph emits: { nodes } after a row gesture
\* or onAddTable, { edges } after onConnect, both after deleteSelected
RemoteDeltas(g, n) ==
    {[nodes |-> deleteRow(g, i, g.nodes[i].rows[1].id).nodes] :
        i \in {k \in DOMAIN g.nodes : g.nodes[k].rows # <<>>}}
    \cup {[nodes |-> onAddTable(g, n).nodes]}
    \cup {[edges |-> onConnect(g, g.nodes[i].id, g.nodes[i].rows[1].id,
                               g.nodes[1].id).edges] :
            i \in {k \in DOMAIN g.nodes : g.nodes[k].rows # <<>>}}
    \cup {[nodes |-> d.nodes, edges |-> d.edges] :
            d \in {deleteSelected(g, {id}, {}) : id \in NodeIds(g)}}

RemoteUpdate ==
    \E data \in RemoteDeltas(rtGraph, edits) : EditTo(ApplyStateUpdate(rtGraph, data))

EditNext ==
    \/ AddRow
    \/ DeleteRow
    \/ DeleteNode
    \/ DeleteEdge
    \/ SplitEdge
    \/ DrawEdge
    \/ AddTable
    \/ DeleteSelected
    \/ RemoteUpdate

(***************************************************************************)
(* SpecInbound: the socket handlers of a mounted client (App.tsx:951-1106) *)
(* with the payload as the handler is given it: missing, of another        *)
(* workspace, or of the client's own workspace.                            *)
(***************************************************************************)
OwnWorkspaceId == "workspace-own"
ForeignWorkspaceId == "workspace-other"

\* a packet with no payload, and one whose payload names a workspace
NoPayload == [present |-> FALSE]
Payload(workspaceId, body) ==
    [present |-> TRUE, workspaceId |-> workspaceId, body |-> body]
Packet(type, payload) == [type |-> type, payload |-> payload]

\* the first statement of each handler: "throw" when reading
\* state.workspaceId of a missing payload, "drop" on the early return
InboundGuard(type, p) ==
    IF type = "init-state"
    THEN \* if (state.workspaceId !== workspaceId) return;
         IF ~p.present THEN "throw"
         ELSE IF p.workspaceId # OwnWorkspaceId THEN "drop" ELSE "handle"
    ELSE \* if (!payload || payload.workspaceId !== workspaceId) return;
         IF ~p.present \/ p.workspaceId # OwnWorkspaceId THEN "drop" ELSE "handle"

\* toUserRecord: the users that have an id, by id
toUserRecord(users) == {users[i] : i \in DOMAIN users} \ {Null}

\* socket.on('online-users')
CliOnlineUsers(c, body) ==
    IF body.users.ty # "array" THEN c
    ELSE [c EXCEPT !.onlineUsers = toUserRecord(body.users.val)]

\* socket.on('cursor-update')
CliCursorUpdate(c, data) ==
    [c EXCEPT
       !.remoteCursors = [u \in DOMAIN @ \cup {data.userId} |->
                             IF u = data.userId THEN data.x ELSE @[u]],
       !.onlineUsers = IF data.userId \notin @ /\ ~data.named THEN @
                       ELSE @ \cup {data.userId}]

\* socket.on('user-disconnected'), its presence part
CliUserDisconnected(c, payload) ==
    [c EXCEPT
       !.remoteCursors = [u \in DOMAIN @ \ {payload.peer} |-> @[u]],
       !.onlineUsers = @ \ {payload.peer}]

\* what a handler leaves: the component state, the voice state, and what
\* it emitted on the socket
Handled(c, v, o, vo) == [c |-> c, v |-> v, out |-> o, vout |-> vo]
OfSync(r, v) == Handled(r.c, v, r.out, <<>>)
OfVoice(c, r) == Handled(c, r.c, <<>>, r.out)

InboundHandler(id, c, v, m, rollback) ==
    LET b == m.payload.body
    IN  CASE m.type = "init-state" ->
               Bind(CliInitState(id, c, b), LAMBDA r :
                    OfSync(R(IF b.onlineUsers.ty = "array"
                             THEN [r.c EXCEPT !.onlineUsers =
                                                 toUserRecord(b.onlineUsers.val)]
                             ELSE r.c, r.out), v))
          [] m.type = "state-update" -> OfSync(CliStateUpdate(id, c, b), v)
          [] m.type = "workspace-permissions" -> OfSync(CliPermissions(id, c, b), v)
          [] m.type = "online-users" -> Handled(CliOnlineUsers(c, b), v, <<>>, <<>>)
          [] m.type = "cursor-update" -> Handled(CliCursorUpdate(c, b), v, <<>>, <<>>)
          [] m.type = "user-disconnected" ->
               OfVoice(CliUserDisconnected(c, b), OnUserDisconnected(id, v, b))
          [] m.type = "voice-user-joined" -> OfVoice(c, OnVoiceUserJoined(id, v, b))
          [] m.type = "voice-user-left" -> OfVoice(c, OnVoiceUserLeft(id, v, b))
          [] m.type = "voice-offer" -> OfVoice(c, OnVoiceOffer(id, v, b, rollback))
          [] m.type = "voice-answer" -> OfVoice(c, OnVoiceAnswer(id, v, b))
          [] m.type = "voice-ice-candidate" ->
               OfVoice(c, OnVoiceIceCandidate(id, v, b, rollback))

\* one packet reaches its handler
CliInbound(id, c, v, m, rollback) ==
    Bind(InboundGuard(m.type, m.payload), LAMBDA g :
         IF g = "throw" THEN Handled([c EXCEPT !.uncaught = TRUE], v, <<>>, <<>>)
         ELSE IF g = "drop" THEN Handled(c, v, <<>>, <<>>)
         ELSE InboundHandler(id, c, v, m, rollback))

\* the payloads of the server's packets, one or two of each type
InboundBodies(type) ==
    CASE type = "init-state" ->
           { [ jsonText |-> JStr(TextA), nodes |-> JArr(<<>>), edges |-> JArr(<<>>),
               isFullScreen |-> JBool(TRUE), editorWidth |-> JNum(300),
               onlineUsers |-> JArr(<<1, 2>>),
               permissions |-> [ownerUserId |-> 2, allowCollaboratorEdits |-> FALSE] ] }
      [] type = "state-update" ->
           { [jsonText |-> JStr(TextFlat)], [isFullScreen |-> JBool(TRUE)] }
      [] type = "workspace-permissions" ->
           { [ownerUserId |-> 2, allowCollaboratorEdits |-> TRUE] }
      [] type = "online-users" -> { [users |-> JArr(<<2>>)], [users |-> Undef] }
      [] type = "cursor-update" ->
           { [userId |-> 2, x |-> 7, named |-> TRUE],
             [userId |-> 2, x |-> 9, named |-> FALSE] }
      [] type = "voice-ice-candidate" -> {VoiceMsg(type, 2, 1)}
      [] OTHER -> {VoiceMsg(type, 2, 0)}

InboundTypes ==
    { "init-state", "state-update", "workspace-permissions", "online-users",
      "cursor-update", "user-disconnected", "voice-user-joined",
      "voice-user-left", "voice-offer", "voice-answer", "voice-ice-candidate" }

InboundPackets ==
    UNION { {Packet(t, NoPayload)}
            \cup {Packet(t, Payload(w, b)) :
                    w \in {OwnWorkspaceId, ForeignWorkspaceId}, b \in InboundBodies(t)}
            : t \in InboundTypes }

\* most packets under way to the client at the start
MaxInbound == 2

\* client 1 is mounted, with voice off or on; packets are under way to it
InboundInit ==
    /\ ws = JoinedWorkspace(NumClients)
    /\ ev = Event("none", Null, NullData)
    /\ out = <<>>
    /\ \E r \in {CliMount(1, InitialClient)} :
          /\ cli = [c \in Clients |-> IF c = 1 THEN r.c ELSE InitialClient]
          /\ toSrv = [c \in Clients |-> IF c = 1 THEN r.out ELSE <<>>]
    /\ \E n \in 1..MaxInbound : \E q \in [1..n -> InboundPackets] :
          toCli = [c \in Clients |-> IF c = 1 THEN q ELSE <<>>]
    /\ edits = 0
    /\ \E r \in {R(InitialVoice, <<>>), startVoiceChat(InitialVoice)} :
          /\ vc = [c \in Clients |-> IF c = 1 THEN r.c ELSE InitialVoice]
          /\ vToSrv = [c \in Clients |-> IF c = 1 THEN r.out ELSE <<>>]
    /\ vToCli = [c \in Clients |-> <<>>]
    /\ vops = 0

Inbound(id, rollback) ==
    /\ cli[id].phase = "mounted"
    /\ toCli[id] # <<>>
    /\ \E r \in {CliInbound(id, cli[id], vc[id], Head(toCli[id]), rollback)} :
          /\ cli' = [cli EXCEPT ![id] = r.c]
          /\ vc' = [vc EXCEPT ![id] = r.v]
          /\ toSrv' = [toSrv EXCEPT ![id] = @ \o r.out]
          /\ vToSrv' = [vToSrv EXCEPT ![id] = @ \o r.vout]
    /\ toCli' = [toCli EXCEPT ![id] = Tail(@)]
    /\ UNCHANGED <<edits, vToCli, vops, srvVars, rtVars>>

InboundNext == \E c \in Clients, rollback \in BOOLEAN : Inbound(c, rollback)

(***************************************************************************)
(* The specifications.                                                     *)
(***************************************************************************)
SpecInit == SrvInit /\ RtIdle /\ SyncIdle /\ VoiceIdle
Spec == SpecInit /\ [][SrvNext]_vars

SpecRelay == SpecInit /\ [][RelayNext]_vars

SpecPresence == SpecInit /\ [][PresenceNext]_vars

SpecEvents == SpecInit /\ [][EventsNext]_vars

SpecIsolationInit == IsolationInit /\ RtIdle /\ SyncIdle /\ VoiceIdle
SpecIsolation == SpecIsolationInit /\ [][IsolationNext]_vars

SpecRTInit == SrvInit /\ RtInit /\ SyncIdle /\ VoiceIdle
SpecRT == SpecRTInit /\ [][RtNext]_vars

SpecGraphInit == SrvInit /\ GraphInit /\ SyncIdle /\ VoiceIdle
SpecGraph == SpecGraphInit /\ [][GraphNext]_vars

SpecSyncInit == SrvInit /\ RtIdle /\ SyncInit /\ VoiceIdle
SpecSync == SpecSyncInit /\ [][SyncNext]_vars
\* SpecQuiesce: a workspace whose earlier members may have left edit
\* sharing on, the clients mounting, and one edit of the text by one
\* client; timers fire and packets are handled in the end
QuiesceInit ==
    /\ \E shared \in BOOLEAN :
           ws = [createWorkspaceState EXCEPT !.allowCollaboratorEdits = shared]
    /\ ev = Event("none", Null, NullData)
    /\ out = <<>>
    /\ SyncInit
SingleEdit ==
    /\ edits = 0
    /\ \E c \in Clients, text \in TypedTexts : TypeText(c, text)
\* what happens without the user: a timer fires, a packet is handled
QuiesceInternal ==
    \/ \E c \in Clients : FlagTimer(c)
    \/ \E c \in Clients : Debounce(c)
    \/ \E c \in Clients : Receive(c)
    \/ \E c \in Clients : Serve(c)
QuiesceNext ==
    \/ \E c \in Clients : Mount(c)
    \/ SingleEdit
    \/ QuiesceInternal
\* as long as a timer is pending or a packet is under way, one of them is
\* taken in the end
SyncFairness == WF_vars(QuiesceInternal)
SpecQuiesceInit == QuiesceInit /\ RtIdle /\ VoiceIdle
SpecQuiesce == SpecQuiesceInit /\ [][QuiesceNext]_vars /\ SyncFairness

SpecTeardownInit == TeardownInit /\ RtIdle /\ SyncIdle
SpecTeardown == SpecTeardownInit /\ [][TeardownNext]_vars

SpecVoiceInit == VoiceInit /\ RtIdle /\ SyncIdle
SpecVoice == SpecVoiceInit /\ [][VoiceNext]_vars

SpecCancel == SpecVoiceInit /\ [][CancelNext]_vars

SpecEditInit == SrvInit /\ EditInit /\ SyncIdle /\ VoiceIdle
SpecEdit == SpecEditInit /\ [][EditNext]_vars

SpecInboundInit == InboundInit /\ RtIdle
SpecInbound == SpecInboundInit /\ [][InboundNext]_vars


(***************************************************************************)
(* Properties of the server handlers.  ev' is the event a step handles, ws *)
(* the workspace before it, ws' after it, out' what it emitted.            *)
(***************************************************************************)
OutOfType(o, type) == SelectSeq(o, LAMBDA m : m.type = type)
Recipients(o) == {o[i].to : i \in DOMAIN o}
\* the sender holds edit rights in workspace w (spec 4.4)
HoldsEditRights(w, sid) == sid = w.ownerSocketId \/ w.allowCollaboratorEdits
\* the delta carries a value of the field's type
Carries(d, f) ==
    /\ f \in DOMAIN d
    /\ d[f].ty = CASE f = "jsonText" -> "string"
                   [] f = "nodes" -> "array"
                   [] f = "edges" -> "array"
                   [] f = "isFullScreen" -> "boolean"
                   [] f = "editorWidth" -> "number"

\* C1: a state-change assigns the document fields of its delta if and only if
\* the sender is the owner or allowCollaboratorEdits is true when the event is
\* handled; the UI flags of the delta are assigned either way.
C1_PermissionGate ==
    [][ev'.kind = "state-change" =>
        /\ \A f \in DocFields :
              IF HoldsEditRights(ws, ev'.sid)
              THEN Carries(ev'.data, f) => ws'[f] = ev'.data[f]
              ELSE ws'[f] = ws[f]
        /\ \A f \in UiFields :
              Carries(ev'.data, f) => ws'[f] = ev'.data[f]]_vars

\* a collaborator's delta with a document field and a UI flag was handled while
\* allowCollaboratorEdits was false: the flag was assigned, the text was not
C1_Witness ==
    /\ ev.kind = "state-change"
    /\ ev.data = DocAndUiDelta
    /\ ev.sid # ws.ownerSocketId
    /\ ~ws.allowCollaboratorEdits
    /\ ws.isFullScreen = JBool(TRUE)
    /\ ws.jsonText = JStr("")

\* C5: field-level last-writer-wins.  A state-change sets each field to the
\* value its delta carries when that value is well-typed and accepted, and
\* leaves every other field as it was; no other event touches the five fields.
C5_LastWriterWins ==
    [][/\ ev'.kind = "state-change" =>
            \A f \in StateFields :
                ws'[f] = IF /\ Carries(ev'.data, f)
                            /\ f \in DocFields => HoldsEditRights(ws, ev'.sid)
                         THEN ev'.data[f]
                         ELSE ws[f]
       /\ ev'.kind # "state-change" =>
            \A f \in StateFields : ws'[f] = ws[f]]_vars

\* a delta with one field overwrote that field and kept a text written earlier
C5_Witness ==
    /\ ev.kind = "state-change"
    /\ ev.data = One("editorWidth", JNum(300))
    /\ ws.editorWidth = JNum(300)
    /\ ws.jsonText = NewText
    /\ ws.isFullScreen = JBool(FALSE)

\* C7: set-edit-access from the owner with a boolean sets the flag and sends
\* workspace-permissions to every member; from anyone else, or with another
\* value, it changes nothing and emits nothing.
C7_SetEditAccess ==
    [][ev'.kind = "set-edit-access" =>
        LET v == Get(ev'.data, "allowCollaboratorEdits")
        IN  IF ev'.sid = ws.ownerSocketId /\ v.ty = "boolean"
            THEN /\ ws' = [ws EXCEPT !.allowCollaboratorEdits = v.val]
                 /\ \A i \in DOMAIN out' : out'[i].type = "workspace-permissions"
                 /\ Recipients(out') = MemberIds(ws)
                 /\ Len(out') = Cardinality(MemberIds(ws))
                 /\ \A i \in DOMAIN out' :
                       out'[i].payload.allowCollaboratorEdits = v.val
            ELSE ws' = ws /\ out' = <<>>]_vars

\* a collaborator asked for edit access: nothing changed, nothing was sent
C7_Witness ==
    /\ ev.kind = "set-edit-access"
    /\ ev.data = One("allowCollaboratorEdits", JBool(TRUE))
    /\ ev.sid # ws.ownerSocketId
    /\ ~ws.allowCollaboratorEdits
    /\ out = <<>>

\* C8: the owner's disconnect hands ownership to a remaining member and
\* tells the room; the last member's disconnect leaves no owner; another
\* member's disconnect keeps the owner and sends no workspace-permissions.
C8_OwnershipTransfer ==
    [][ev'.kind = "disconnect" =>
        LET remaining == MemberIds(ws) \ {ev'.sid}
            perms == OutOfType(out', "workspace-permissions")
        IN  /\ MemberIds(ws') = remaining
            /\ IF ev'.sid = ws.ownerSocketId
               THEN IF remaining # {}
                    THEN /\ ws'.ownerSocketId \in remaining
                         /\ Recipients(perms) = remaining
                         /\ \A i \in DOMAIN perms :
                               perms[i].payload.ownerUserId = ws'.ownerSocketId
                    ELSE ws'.ownerSocketId = Null
               ELSE /\ ws'.ownerSocketId = ws.ownerSocketId
                    /\ perms = <<>>]_vars

\* the owner left, a member remained and was told it owns the workspace
C8_Witness ==
    /\ ev.kind = "disconnect"
    /\ ws.ownerSocketId # Null
    /\ ws.ownerSocketId # ev.sid
    /\ \E i \in DOMAIN out :
          /\ out[i].type = "workspace-permissions"
          /\ out[i].to = ws.ownerSocketId
          /\ out[i].payload.ownerUserId = ws.ownerSocketId

\* C9: a join into a workspace without an owner makes the joiner the owner;
\* a join while the owner is connected leaves the owner as it is.
C9_FirstJoinerOwns ==
    [][ev'.kind = "connection" =>
        ws'.ownerSocketId =
            IF ws.ownerSocketId = Null THEN ev'.sid ELSE ws.ownerSocketId]_vars

\* a second session joined and the first is still the owner
C9_Witness ==
    /\ ev.kind = "connection"
    /\ ws.ownerSocketId # Null
    /\ ws.ownerSocketId # ev.sid
    /\ {ws.ownerSocketId, ev.sid} \subseteq MemberIds(ws)

\* C10: a state-change from a sender without edit rights is answered with
\* nothing to the sender; what is broadcast is a state-update to the other
\* members without jsonText, nodes or edges, and nothing at all when the
\* delta carried no well-typed UI flag.
C10_SilentDrop ==
    [][(ev'.kind = "state-change" /\ ~HoldsEditRights(ws, ev'.sid)) =>
        /\ \A i \in DOMAIN out' :
              /\ out'[i].to # ev'.sid
              /\ out'[i].type = "state-update"
              /\ DOMAIN out'[i].payload \cap DocFields = {}
        /\ (\A f \in UiFields : ~Carries(ev'.data, f)) => out' = <<>>]_vars

\* a collaborator without edit rights sent text, nodes and edges with a width:
\* the other member was sent the width alone
C10_Witness ==
    /\ ev.kind = "state-change"
    /\ ev.data = [jsonText |-> JNum(7), nodes |-> NewNodes, editorWidth |-> JNum(300)]
    /\ ev.sid # ws.ownerSocketId
    /\ ~ws.allowCollaboratorEdits
    /\ Len(out) >= 1
    /\ \A i \in DOMAIN out : DOMAIN out[i].payload = {"editorWidth"}

\* C11: every connection is answered with exactly one init-state, sent to the
\* joining socket and to no other; it carries the five state fields, the
\* member list with the joiner in it and the joiner's permissions (canEdit =
\* the joiner is the owner or allowCollaboratorEdits) as the workspace holds
\* them when the join has been handled.  No other event emits an init-state.
C11_InitStateUnicast ==
    LET inits == OutOfType(out, "init-state")
    IN  IF ev.kind = "connection"
        THEN /\ Len(inits) = 1
             /\ inits[1].to = ev.sid
             /\ \A f \in StateFields : inits[1].payload[f] = ws[f]
             /\ inits[1].payload.onlineUsers = ws.connectedUsers
             /\ \E i \in DOMAIN inits[1].payload.onlineUsers :
                   inits[1].payload.onlineUsers[i].id = ev.sid
             /\ inits[1].payload.permissions =
                   [ ownerUserId |-> ws.ownerSocketId,
                     allowCollaboratorEdits |-> ws.allowCollaboratorEdits,
                     canEdit |-> HoldsEditRights(ws, ev.sid) ]
        ELSE inits = <<>>

\* a collaborator joined a workspace whose owner had changed the text and
\* allowed collaborator edits: its init-state carries the text and canEdit
C11_Witness ==
    /\ ev.kind = "connection"
    /\ ev.sid # ws.ownerSocketId
    /\ ws.allowCollaboratorEdits
    /\ Len(ws.connectedUsers) >= 2
    /\ \E i \in DOMAIN out :
          /\ out[i].type = "init-state"
          /\ out[i].to = ev.sid
          /\ out[i].payload.jsonText = NewText
          /\ out[i].payload.permissions.canEdit

\* C12: a state-change of which the server applied at least one field is
\* sent on as one state-update to every other member and never to the
\* sender; the state-update carries exactly the applied fields, with the
\* values the server stored.  A state-change of which nothing was applied is
\* not sent on.
C12_RebroadcastToOthers ==
    ev.kind = "state-change" =>
        LET applied == {f \in StateFields :
                           /\ Carries(ev.data, f)
                           /\ f \in DocFields => HoldsEditRights(ws, ev.sid)}
            others == MemberIds(ws) \ {ev.sid}
        IN  IF applied = {}
            THEN out = <<>>
            ELSE /\ \A i \in DOMAIN out : out[i].type = "state-update"
                 /\ Recipients(out) = others
                 /\ Len(out) = Cardinality(others)
                 /\ \A i \in DOMAIN out :
                       /\ DOMAIN out[i].payload = applied
                       /\ \A f \in applied :
                             /\ out[i].payload[f] = ev.data[f]
                             /\ out[i].payload[f] = ws[f]

\* the owner sent a delta of which the ill-typed text was refused: the two
\* other members were sent the nodes and the width, the owner nothing
C12_Witness ==
    /\ ev.kind = "state-change"
    /\ ev.sid = ws.ownerSocketId
    /\ ev.data = [jsonText |-> JNum(7), nodes |-> NewNodes, editorWidth |-> JNum(300)]
    /\ Len(out) = 2
    /\ \A i \in DOMAIN out :
          /\ out[i].to # ev.sid
          /\ DOMAIN out[i].payload = {"nodes", "editorWidth"}

\* On a server with one workspace, whose name no socket has: a voice-offer,
\* voice-answer or voice-ice-candidate is delivered to
\* the socket its targetUserId names and to no other, only if that id is a
\* string naming a member of the workspace, and carries the sender's id as
\* fromUserId next to the sdp or candidate it came with; otherwise nothing
\* is delivered.  The workspace is left as it was.
C21_RelayToTargetOnly ==
    ev.kind \in VoiceRelayKinds =>
        LET t == Get(ev.data, "targetUserId")
            f == RelayedField(ev.kind)
        IN  /\ ev.sid \in MemberIds(ws)
            /\ IF t.ty = "string" /\ t.val \in MemberIds(ws)
               THEN /\ Len(out) = 1
                    /\ out[1].type = ev.kind
                    /\ out[1].to = t.val
                    /\ DOMAIN out[1].payload = {"fromUserId", f}
                    /\ out[1].payload.fromUserId = ev.sid
                    /\ out[1].payload[f] = ev.data[f]
               ELSE out = <<>>

\* an offer relayed to one of two other members
C21_Witness ==
    /\ ev.kind = "voice-offer"
    /\ Cardinality(MemberIds(ws)) = 3
    /\ Len(out) = 1
    /\ out[1].to # ev.sid
    /\ out[1].payload.fromUserId = ev.sid

(***************************************************************************)
(* Properties of the JSON <-> graph transform.                             *)
(***************************************************************************)
\* C6: for every valid JSON value J, buildJson applied to generateGraph(J)
\* is deep-equal to J.
C6_RoundTrip == rtPc = "built" => DeepEq(rtOut, rtIn)

\* the nodes buildJson starts from: the roots, or nodes[0] when there is none
StartIds(g) ==
    LET rootNodes == RootNodes(g.nodes, g.edges)
    IN  IF Len(rootNodes) = 0 THEN {g.nodes[1].id}
        ELSE {rootNodes[i].id : i \in DOMAIN rootNodes}
\* the nodes the reconstruction of node id descends into: none for a missing
\* node or a wrapper; every target of a row of an array-shaped node or of an
\* array row; the first target of any other row
Follows(g, id) ==
    IF ~NodeMapHas(g.nodes, id) THEN {}
    ELSE LET node == NodeMapGet(g.nodes, id)
             targets(row) == LET es == RowEdges(g.edges, id, row.id)
                             IN  IF RowsAreArray(node.rows) \/ row.type = "array"
                                 THEN {es[i].target : i \in DOMAIN es}
                                 ELSE {es[i].target : i \in DOMAIN es \cap {1}}
         IN  IF node.isPrimitiveArrayItemWrapper /\ Len(node.rows) > 0 THEN {}
             ELSE UNION {targets(node.rows[i]) : i \in DOMAIN node.rows}
RECURSIVE ReachFrom(_, _)
ReachFrom(g, S) ==
    LET T == S \cup UNION {Follows(g, n) : n \in S}
    IN  IF T = S THEN S ELSE ReachFrom(g, T)
\* the reconstruction can come back to a node it is still reconstructing
CycleFollowed(g) ==
    \E n \in ReachFrom(g, StartIds(g)) : n \in ReachFrom(g, Follows(g, n))
\* the reconstruction comes to an edge whose target is not a node
MissingFollowed(g) ==
    \E n \in ReachFrom(g, StartIds(g)) : ~NodeMapHas(g.nodes, n)
\* v is a finite JSON value
RECURSIVE IsJsonValue(_)
IsJsonValue(v) ==
    CASE v.t \in {"null", "bool", "num", "nan", "str"} -> TRUE
      [] v.t = "arr" -> \A i \in DOMAIN v.x : IsJsonValue(v.x[i])
      [] v.t = "obj" -> \A i \in DOMAIN v.x : IsJsonValue(v.x[i].v)
      [] OTHER -> FALSE
\* the sentinel "[Circular]" occurs in v
RECURSIVE HasSentinel(_)
HasSentinel(v) ==
    CASE v.t = "str" -> v.x = S_circular
      [] v.t = "arr" -> \E i \in DOMAIN v.x : HasSentinel(v.x[i])
      [] v.t = "obj" -> \E i \in DOMAIN v.x : HasSentinel(v.x[i].v)
      [] OTHER -> FALSE

\* C14: for every graph - with an edge cycle, without a root, with two
\* roots, with edges to a missing node - buildJson returns a finite JSON
\* value; when the reconstruction can come back to a node it is still
\* reconstructing the value holds the sentinel "[Circular]" in its place, and
\* when it can neither come back nor meet a missing node it holds none.
C14_TotalWithSentinel ==
    rtPc = "built" =>
        /\ IsJsonValue(rtOut)
        /\ CycleFollowed(rtGraph) => HasSentinel(rtOut)
        /\ (~CycleFollowed(rtGraph) /\ ~MissingFollowed(rtGraph)) => ~HasSentinel(rtOut)

\* A's row points to B and B's row points back to A, so no node is a root:
\* the reconstruction started at A and put the sentinel where B points to A
C14_Witness ==
    /\ rtPc = "built"
    /\ Len(rtGraph.nodes) = 2
    /\ RootNodes(rtGraph.nodes, rtGraph.edges) = <<>>
    /\ rtOut = VObj(<<[k |-> <<"a">>,
                       v |-> VObj(<<[k |-> <<"a">>, v |-> VStr(S_circular)]>>)]>>)

\* the value buildJson gave the top-level node id: the result itself, or
\* the member under the node's id when the graph has several roots
TopValue(g, result, id) ==
    IF Len(RootNodes(g.nodes, g.edges)) >= 2
    THEN result.x[ObjGet(result.x, id)].v
    ELSE result
\* every row key, trimmed, matches ^\d+$
AllKeysAreIndexes(rows) ==
    \A i \in DOMAIN rows :
        LET u == Trim(rows[i].key)
        IN  Len(u) > 0 /\ \A j \in DOMAIN u : IsDigit(u[j])
\* what a row without edges stands for
RowFallback(row) ==
    CASE row.type = "array" -> VArr(<<>>)
      [] row.type = "object" -> VObj(<<>>)
      [] OTHER -> RowValue(row)
\* node id has no outgoing edge
NoEdgesFrom(g, id) == \A i \in DOMAIN g.edges : g.edges[i].source # id

\* C15 as stated: every node, a node with zero rows included, serializes as
\* an array if and only if every row key, trimmed, matches ^\d+$, with the
\* elements in row order.
C15_ArrayIffIndexKeys ==
    rtPc = "built" =>
        \A id \in StartIds(rtGraph) :
            LET node == NodeMapGet(rtGraph.nodes, id)
                val == TopValue(rtGraph, rtOut, id)
            IN  /\ val.t = "arr" <=> AllKeysAreIndexes(node.rows)
                /\ (val.t = "arr" /\ NoEdgesFrom(rtGraph, id)) =>
                      val.x = [i \in DOMAIN node.rows |-> RowFallback(node.rows[i])]

\* C15 amended: a node that has at least one row and is no primitive array
\* item wrapper serializes as an array if and only if every row key,
\* trimmed, matches ^\d+$, with the elements in row order; a node with zero
\* rows serializes as the empty object.
C15_ArrayIffIndexKeysNonEmpty ==
    rtPc = "built" =>
        \A id \in StartIds(rtGraph) :
            LET node == NodeMapGet(rtGraph.nodes, id)
                val == TopValue(rtGraph, rtOut, id)
            IN  IF Len(node.rows) = 0 THEN val = VObj(<<>>)
                ELSE ~node.isPrimitiveArrayItemWrapper =>
                        /\ val.t = "arr" <=> AllKeysAreIndexes(node.rows)
                        /\ val.t = "obj" <=> ~AllKeysAreIndexes(node.rows)
                        /\ (val.t = "arr" /\ NoEdgesFrom(rtGraph, id)) =>
                              val.x = [i \in DOMAIN node.rows |->
                                          RowFallback(node.rows[i])]

\* a single node with rows keyed "2", "0", "1" in that order was serialized
\* as the array of their values in row order
C15_Witness ==
    /\ rtPc = "built"
    /\ Len(rtGraph.nodes) = 1
    /\ Len(rtGraph.nodes[1].rows) = 3
    /\ rtGraph.nodes[1].rows[1].key = <<"2">>
    /\ rtGraph.nodes[1].rows[2].key = <<"0">>
    /\ rtGraph.nodes[1].rows[3].key = <<"1">>
    /\ rtOut = VArr(<<VStr(<<"x">>), VStr(<<"y">>), VStr(<<"z">>)>>)

\* the nodes of the generated graph that are tagged isSyntheticRoot
SyntheticNodes == SelectSeq(rtGraph.nodes, LAMBDA n : n.isSyntheticRoot)

\* C16: for a top-level value that is no plain object the generated graph
\* has exactly one node tagged isSyntheticRoot, the node with id "root" (the
\* only node when the value is a scalar or null), and buildJson of that
\* graph returns the original value; for a top-level object, one with a key
\* "root" included, no node is tagged.
C16_SyntheticRoot ==
    rtPc \in {"graph", "built"} =>
        IF rtIn.t # "obj"
        THEN /\ Len(SyntheticNodes) = 1
             /\ SyntheticNodes[1].id = S_root
             /\ Len(SelectSeq(rtGraph.nodes, LAMBDA n : n.id = S_root)) = 1
             /\ IsPrimitive(rtIn) => Len(rtGraph.nodes) = 1
             /\ rtPc = "built" => DeepEq(rtOut, rtIn)
        ELSE SyntheticNodes = <<>>

(***************************************************************************)
(* Properties of the synchronisation protocol.                             *)
(***************************************************************************)
\* nothing is under way and no timer is pending
Quiescent ==
    /\ \A c \in Clients : toSrv[c] = <<>> /\ toCli[c] = <<>>
    /\ \A c \in Clients :
          cli[c].phase = "mounted" =>
              /\ ~cli[c].debounceArmed
              /\ cli[c].flagTimers = 0
              /\ ~cli[c].widthTimer
\* the client has received the init-state of its connection
Synced(c) == cli[c].phase = "mounted" /\ cli[c].hasReceivedInitState
\* the client's copy of the five state fields equals the server's
InSync(c) ==
    /\ cli[c].jsonText = ws.jsonText.val
    /\ cli[c].nodes = ws.nodes.val
    /\ cli[c].edges = ws.edges.val
    /\ cli[c].isFullScreen = ws.isFullScreen.val
    /\ cli[c].editorWidth = ws.editorWidth.val

\* C2: once the clients have stopped editing and everything under way has
\* been delivered, every synced client's jsonText, nodes, edges,
\* isFullScreen and editorWidth equal the server's.
C2_EventualConsistency == Quiescent => \A c \in Clients : Synced(c) => InSync(c)

\* C3: a client emits no state-change between opening its connection and
\* receiving init-state: while it has not received init-state, no
\* state-change of its own is under way to the server.
C3_NoEmitBeforeInit ==
    \A c \in Clients :
        (cli[c].phase = "mounted" /\ ~cli[c].hasReceivedInitState) =>
            \A i \in DOMAIN toSrv[c] : toSrv[c][i].type # "state-change"

\* C4: a client never emits a state-change carrying a text it took from an
\* init-state or a state-update.
C4_EchoSuppression ==
    \A c \in Clients : \A i \in DOMAIN toSrv[c] :
        (toSrv[c][i].type = "state-change" /\ "jsonText" \in DOMAIN toSrv[c][i].data)
            => toSrv[c][i].origin # "remote"

\* C13: after the connection has dropped and a new one has been asked for,
\* the client emits no state-change on the new connection until it has
\* handled that connection's init-state: while it awaits the init-state of
\* a reconnect, no state-change of its own is under way to the server.
C13_ReconnectAwaitsInit ==
    \A c \in Clients :
        (cli[c].phase = "mounted" /\ cli[c].awaiting = "again") =>
            \A i \in DOMAIN toSrv[c] : toSrv[c][i].type # "state-change"

(***************************************************************************)
(* Properties of the voice mesh, checked under SpecVoice.                  *)
(***************************************************************************)
PeerIds(c) == DOMAIN vc[c].peerConnections

\* C20: creating the connection of a remote id that has one returns it and
\* leaves every ref as it was; whatever voice-user-joined, voice-offer or
\* other voice event a client handles, a connection it keeps for a remote id
\* is the same object after the event as before, and the local track was
\* attached to it once.
C20_CreateIsIdempotent ==
    [][\A c \in Clients : \A p \in PeerIds(c) :
          /\ createVoicePeerConnection(vc[c], p) = vc[c]
          /\ vc[c].peerConnections[p].tracks = 1
          /\ p \in DOMAIN vc'[c].peerConnections =>
                /\ vc'[c].peerConnections[p].serial = vc[c].peerConnections[p].serial
                /\ vc'[c].peerConnections[p].tracks = 1]_vars

\* a client is about to handle a voice-user-joined or a voice-offer of a
\* peer it already has a connection for
C20_Witness ==
    \E c \in Clients :
        /\ vToCli[c] # <<>>
        /\ Head(vToCli[c]).type \in {"voice-user-joined", "voice-offer"}
        /\ Head(vToCli[c]).payload.peer \in PeerIds(c)
        /\ vc[c].isVoiceEnabled

\* one offer/answer exchange has completed on c's connection for p
Negotiated(c, p) ==
    /\ p \in PeerIds(c)
    /\ vc[c].peerConnections[p].signalingState = "stable"
    /\ vc[c].peerConnections[p].hasRemote

\* no signalling packet is under way: only a gesture can change the mesh
VoiceQuiet ==
    \A c \in Clients : vToSrv[c] = <<>> /\ vToCli[c] = <<>>

\* C17: two members that have voice enabled and keep it enabled end up with
\* a negotiated connection for each other, however their voice-join notices
\* interleave: once every signalling packet has been handled, each of two
\* enabled members holds a connection for the other on which an
\* offer/answer exchange has completed.
C17_FullMesh ==
    VoiceQuiet =>
        \A c \in Clients : \A p \in Clients \ {c} :
            (vc[c].isVoiceEnabled /\ vc[p].isVoiceEnabled) => Negotiated(c, p)

\* C18: a voice-offer that arrives while the client's own offer to that peer
\* awaits its answer is dropped: handling it leaves the client's voice state
\* as it was and emits nothing.
C18_GlareOfferDropped ==
    [][\A c \in Clients :
          (/\ vToCli[c] # <<>>
           /\ Head(vToCli[c]).type = "voice-offer"
           /\ vToCli'[c] = Tail(vToCli[c])
           /\ vc[c].isVoiceEnabled
           /\ Head(vToCli[c]).payload.peer \in PeerIds(c)
           /\ vc[c].peerConnections[Head(vToCli[c]).payload.peer].signalingState
                 = "have-local-offer")
          => (vc'[c] = vc[c] /\ vToSrv'[c] = vToSrv[c])]_vars

\* C19: a candidate of a peer that has no connection is appended to that
\* peer's queue; when the peer's connection is created the queued candidates
\* are its first added candidates, in order, and the queue is empty; the
\* candidates added to the connections of other peers are as before.
C19_QueuedCandidatesFlushed ==
    [][\A c \in Clients, p \in Clients :
          /\ (/\ vToCli[c] # <<>>
              /\ Head(vToCli[c]) = Msg("voice-ice-candidate", c,
                                       Head(vToCli[c]).payload)
              /\ Head(vToCli[c]).payload.peer = p
              /\ vToCli'[c] = Tail(vToCli[c])
              /\ p \notin PeerIds(c))
             => vc'[c].pendingIceCandidates[p] =
                    Append(vc[c].pendingIceCandidates[p],
                           Head(vToCli[c]).payload.candidate)
          /\ (p \notin PeerIds(c) /\ p \in DOMAIN vc'[c].peerConnections)
             => /\ vc'[c].pendingIceCandidates[p] = <<>>
                /\ vc'[c].peerConnections[p].ice = vc[c].pendingIceCandidates[p]
                /\ \A q \in PeerIds(c) \ {p} :
                      q \in DOMAIN vc'[c].peerConnections =>
                          vc'[c].peerConnections[q].ice = vc[c].peerConnections[q].ice]_vars

\* the event the client handles next ends the peer it names
EndsPeer(c) ==
    /\ vToCli[c] # <<>>
    /\ \/ Head(vToCli[c]).type \in {"voice-user-left", "user-disconnected"}
       \/ /\ Head(vToCli[c]).type = "connectionstatechange"
          /\ Head(vToCli[c]).payload.state \in ClosingStates
          /\ Head(vToCli[c]).payload.peer \in PeerIds(c)

\* C22: handling a voice-user-left or user-disconnected notice for p, or a
\* failed, disconnected or closed report of p's connection, leaves the
\* client without connection, audio element and queued candidates for p,
\* and with the connection, audio element and queue of every other peer,
\* its local stream and its enabled flag as they were; nothing is emitted.
C22_TeardownOnePeer ==
    [][\A c \in Clients :
          (EndsPeer(c) /\ vToCli'[c] = Tail(vToCli[c])) =>
              LET p == Head(vToCli[c]).payload.peer
                  v == vc[c]
                  w == vc'[c]
              IN  /\ p \notin DOMAIN w.peerConnections
                  /\ p \notin w.remoteAudioElements
                  /\ w.pendingIceCandidates[p] = <<>>
                  /\ DOMAIN w.peerConnections = DOMAIN v.peerConnections \ {p}
                  /\ \A q \in DOMAIN w.peerConnections :
                        w.peerConnections[q] = v.peerConnections[q]
                  /\ w.remoteAudioElements = v.remoteAudioElements \ {p}
                  /\ \A q \in DOMAIN v.pendingIceCandidates \ {p} :
                        w.pendingIceCandidates[q] = v.pendingIceCandidates[q]
                  /\ w.isVoiceEnabled = v.isVoiceEnabled
                  /\ w.localAudioStream = v.localAudioStream
                  /\ vToSrv'[c] = vToSrv[c]]_vars

\* every event for peer 2 has been handled: nothing is left for peer 2, and
\* the negotiated connection of peer 3 is there with its audio element
C22_Witness ==
    /\ vToCli[1] = <<>>
    /\ vc[1].created = Cardinality(RemoteIds)
    /\ PeerIds(1) = {3}
    /\ vc[1].peerConnections[3].hasRemote
    /\ vc[1].remoteAudioElements = {3}
    /\ vc[1].pendingIceCandidates[2] = <<>>

\* C23: once the component is unmounted the client holds no connection
\* object and no local audio stream, voice is disabled and the socket is
\* disconnected, whatever was pending when it unmounted.
C23_NothingLeftAfterTeardown ==
    \A c \in Clients :
        ~vc[c].mounted =>
            /\ PeerIds(c) = {}
            /\ ~vc[c].localAudioStream
            /\ ~vc[c].isVoiceEnabled
            /\ vc[c].socket = "disconnected"

\* the client handles an offer or an answer of peer p that its connection
\* for p rejects
NegotiationFails(c, p) ==
    /\ vToCli[c] # <<>>
    /\ vToCli'[c] = Tail(vToCli[c])
    /\ Head(vToCli[c]).payload.peer = p
    /\ vc[c].isVoiceEnabled
    /\ p \in PeerIds(c)
    /\ \/ /\ Head(vToCli[c]).type = "voice-answer"
          /\ vc[c].peerConnections[p].signalingState # "have-local-offer"
       \/ /\ Head(vToCli[c]).type = "voice-offer"
          /\ vc[c].peerConnections[p].signalingState = "have-local-offer"
          /\ p \notin DOMAIN vc'[c].peerConnections

\* C24: when the negotiation of a peer connection fails, an error message
\* is set, voice ends disabled and the connection of that attempt is gone.
C24_FailureRollsBack ==
    [][\A c \in Clients, p \in Clients :
          NegotiationFails(c, p) =>
              /\ vc'[c].voiceError # "none"
              /\ ~vc'[c].isVoiceEnabled
              /\ p \notin DOMAIN vc'[c].peerConnections]_vars

\* the 500 ms timer of c fires on a text that does not parse
DebouncesMalformed(c) ==
    /\ cli[c].phase = "mounted" /\ cli'[c].phase = "mounted"
    /\ cli[c].debounceArmed /\ ~cli'[c].debounceArmed
    /\ cli'[c].debouncedJsonText = cli[c].jsonText
    /\ cli[c].jsonText # cli[c].debouncedJsonText
    /\ ~CanParse(cli[c].jsonText)

\* C25: when the debounced text does not parse, the client's validity flag
\* becomes false, its nodes and edges stay as they were and it emits
\* nothing; and every jsonText under way in a state-change parses.
C25_MalformedStaysLocal ==
    /\ [][\A c \in Clients :
             DebouncesMalformed(c) =>
                 /\ ~cli'[c].isValid
                 /\ cli'[c].nodes = cli[c].nodes
                 /\ cli'[c].edges = cli[c].edges
                 /\ toSrv'[c] = toSrv[c]]_vars
    /\ [](\A c \in Clients : \A i \in DOMAIN toSrv[c] :
             (toSrv[c][i].type = "state-change"
              /\ "jsonText" \in DOMAIN toSrv[c][i].data)
                 => CanParse(toSrv[c][i].data.jsonText.val))

\* the malformed text has been debounced: the flag is down, the graph of
\* the last good text is still there
C25_Witness ==
    \E c \in Clients :
        /\ cli[c].phase = "mounted"
        /\ cli[c].debouncedJsonText = TextMalformed
        /\ ~cli[c].isValid
        /\ cli[c].lastSyncedJson # TextMalformed
        /\ Len(cli[c].nodes) > 0

\* the packets c emits in the step
Emitted(c) ==
    IF Len(toSrv'[c]) > Len(toSrv[c]) /\ SubSeq(toSrv'[c], 1, Len(toSrv[c])) = toSrv[c]
    THEN SubSeq(toSrv'[c], Len(toSrv[c]) + 1, Len(toSrv'[c]))
    ELSE <<>>
\* the step is the user changing the text of c's editor
Keystroke(c) ==
    /\ edits' = edits + 1
    /\ cli'[c].jsonText # cli[c].jsonText
    /\ cli'[c].textFrom = "local"
    /\ cli'[c].nodes = cli[c].nodes
\* the step is the 500 ms timer of c firing after the text changed
DebounceFires(c) ==
    /\ cli[c].debounceArmed /\ cli[c].debounceAfter = 0
    /\ cli[c].jsonText # cli[c].debouncedJsonText
    /\ cli'[c].debouncedJsonText = cli[c].jsonText
\* the step is the 40 ms timer of c firing
WidthTimerFires(c) ==
    /\ cli[c].widthTimer /\ ~cli'[c].widthTimer
    /\ cli'[c].editorWidth = cli[c].editorWidth

EdgeValid(g, e) ==
    /\ \E i \in DOMAIN g.nodes :
          /\ g.nodes[i].id = e.source
          /\ \E j \in DOMAIN g.nodes[i].rows : g.nodes[i].rows[j].id = e.sourceHandle
    /\ \E i \in DOMAIN g.nodes : g.nodes[i].id = e.target

\* C27: in every graph state a client reaches from the output of
\* generateGraph by add row, delete row, delete node, connect, split edge,
\* delete selection and remote state-update deltas, each edge's source and
\* target are nodes of the graph and its sourceHandle is a row of the source
\* node.
C27_EdgesValid ==
    rtPc = "graph" => \A k \in DOMAIN rtGraph.edges : EdgeValid(rtGraph, rtGraph.edges[k])

\* no two elements of a sequence have the same id
DistinctIds(q) == \A i \in DOMAIN q, j \in DOMAIN q : q[i].id = q[j].id => i = j

\* C28: for every JSON value, generateGraph yields nodes with pairwise
\* distinct ids, edges with pairwise distinct ids, and rows with ids distinct
\* within their node; keys that contain '-' and keys that coincide with the
\* path of another value are among the documents.
C28_UniqueIds ==
    (rtPc = "graph" /\ rtIn \in Documents) =>
        /\ DistinctIds(rtGraph.nodes)
        /\ DistinctIds(rtGraph.edges)
        /\ \A i \in DOMAIN rtGraph.nodes : DistinctIds(rtGraph.nodes[i].rows)

\* the packet a client handles in this step has no payload or names
\* another workspace
DropsForeign(c) ==
    /\ toCli[c] # <<>>
    /\ toCli'[c] = Tail(toCli[c])
    /\ \/ ~Head(toCli[c]).payload.present
       \/ Head(toCli[c]).payload.workspaceId # OwnWorkspaceId

\* C29: a server-to-client packet whose payload is missing or whose
\* workspaceId is not the client's own is dropped: the client's text, graph,
\* UI flags, member list, permissions and voice state stay as they were,
\* nothing is emitted and no error is raised.
C29_ForeignDropped ==
    [][\A c \in Clients :
          DropsForeign(c) =>
              /\ cli'[c] = cli[c]
              /\ ~cli'[c].uncaught
              /\ vc'[c] = vc[c]
              /\ toSrv'[c] = toSrv[c]
              /\ vToSrv'[c] = vToSrv[c]]_vars

\* C30: buildJson returns the sentinel "[Circular]" only for a node that is
\* on the current recursion stack: a graph in which the reconstruction never
\* comes back to a node it is still reconstructing - a child shared by two
\* rows, a missing target referenced by two edges - is rebuilt without the
\* sentinel.
C30_SentinelOnlyOnStack ==
    (rtPc = "built" /\ ~CycleFollowed(rtGraph)) => ~HasSentinel(rtOut)

\* C31: in every state of the workspace, ownerSocketId is null if and only
\* if the member map is empty, and a non-null ownerSocketId is a key of the
\* member map, whatever connections, disconnects, set-user-meta and
\* cursor-move events came before.
C31_OwnerInvariant ==
    /\ ws.ownerSocketId = Null <=> ws.connectedUsers = <<>>
    /\ ws.ownerSocketId # Null => ws.ownerSocketId \in MemberIds(ws)

\* the owner left two members behind, one of which had changed its record
C31_Witness ==
    /\ ev.kind = "disconnect"
    /\ ev.sid \notin MemberIds(ws)
    /\ Len(ws.connectedUsers) = 2
    /\ ws.ownerSocketId = ws.connectedUsers[1].id
    /\ \E i \in DOMAIN ws.connectedUsers :
          ws.connectedUsers[i].name = "Ann" /\ "flowX" \in DOMAIN ws.connectedUsers[i]

\* the members but one, in the order of the map
Remaining(w, sid) == SelectSeq(RoomSeq(w), LAMBDA t : t # sid)

\* C34: the member map keeps the order in which its members joined -
\* set-user-meta and cursor-move leave the order and the owner as they are, a
\* connection appends the joiner - and when the owner disconnects and
\* members remain, the new owner is the first remaining member in that order.
C34_EarliestRemainingOwns ==
    [][/\ ev'.kind \in {"set-user-meta", "cursor-move"} =>
             /\ RoomSeq(ws') = RoomSeq(ws)
             /\ ws'.ownerSocketId = ws.ownerSocketId
       /\ ev'.kind = "connection" => RoomSeq(ws') = Append(RoomSeq(ws), ev'.sid)
       /\ ev'.kind = "disconnect" =>
             /\ RoomSeq(ws') = Remaining(ws, ev'.sid)
             /\ (ws.ownerSocketId = ev'.sid /\ Remaining(ws, ev'.sid) # <<>>) =>
                    ws'.ownerSocketId = Remaining(ws, ev'.sid)[1]]_vars

\* a member left two behind; the earlier of them had changed its name and
\* position, the later had not, and the earlier is the owner
C34_Witness ==
    /\ ev.kind = "disconnect"
    /\ ev.sid \notin MemberIds(ws)
    /\ Len(ws.connectedUsers) = 2
    /\ ws.connectedUsers[1].name = "Ann"
    /\ "flowX" \in DOMAIN ws.connectedUsers[1]
    /\ ws.connectedUsers[2].name = "User"
    /\ ws.ownerSocketId = ws.connectedUsers[1].id
    /\ ws.connectedUsers[1].id > ev.sid

\* C32: ownerSocketId changes only on a connection into a workspace without
\* owner or on the owner's own disconnect, and allowCollaboratorEdits only on
\* a set-edit-access of the current owner; state-change, set-user-meta,
\* cursor-move and the voice events leave both as they are.
C32_NoPrivilegeEscalation ==
    [][/\ ws'.ownerSocketId # ws.ownerSocketId =>
             \/ ev'.kind = "connection" /\ ws.ownerSocketId = Null
             \/ ev'.kind = "disconnect" /\ ev'.sid = ws.ownerSocketId
       /\ ws'.allowCollaboratorEdits # ws.allowCollaboratorEdits =>
             ev'.kind = "set-edit-access" /\ ev'.sid = ws.ownerSocketId
       /\ ev'.kind \notin {"connection", "disconnect", "set-edit-access"} =>
             /\ ws'.ownerSocketId = ws.ownerSocketId
             /\ ws'.allowCollaboratorEdits = ws.allowCollaboratorEdits]_vars

\* a collaborator asked for shared editing while the owner was connected,
\* and it is still off
C32_Witness ==
    /\ ev.kind = "set-edit-access"
    /\ ev.sid \in MemberIds(ws)
    /\ ev.sid # ws.ownerSocketId
    /\ ws.ownerSocketId \in MemberIds(ws)
    /\ ev.data = One("allowCollaboratorEdits", JBool(TRUE))
    /\ ~ws.allowCollaboratorEdits
    /\ out = <<>>

\* the members of workspace W before or after the step
MembersAround(W) == MemberIds(ws[W]) \cup MemberIds(ws'[W])

\* C33: an event from a session of workspace W changes only W's state and
\* is delivered only to members of W.
C33_WorkspaceIsolation ==
    [][\E W \in WorkspaceIds :
          /\ ev'.sid \in MembersAround(W)
          /\ \A X \in WorkspaceIds \ {W} : ws'[X] = ws[X]
          /\ \A i \in DOMAIN out' : out'[i].to \in MembersAround(W)]_vars

\* C21: a relayed voice-offer, voice-answer or voice-ice-candidate is
\* delivered to the single socket its targetUserId names and to no other.
C21_RelayToNamedSocketOnly ==
    ev.kind \in VoiceRelayKinds =>
        \A i \in DOMAIN out : out[i].to = Get(ev.data, "targetUserId").val

\* a mounted client at rest: its init-state handled, the editor text valid,
\* no debounce timer pending, the applying-remote flag clear with no settle
\* timer pending, and no packet under way to it or from it
ClientQuiescent(c) ==
    /\ cli[c].phase = "mounted"
    /\ cli[c].hasReceivedInitState
    /\ cli[c].awaiting = "none"
    /\ cli[c].isValid
    /\ CanParse(cli[c].jsonText)
    /\ ~cli[c].debounceArmed
    /\ ~cli[c].isRemoteUpdate
    /\ cli[c].flagTimers = 0
    /\ toCli[c] = <<>>
    /\ toSrv[c] = <<>>

\* C35: whenever a client is quiescent, the value buildJson reconstructs
\* from its nodes and edges equals the parsed value of its editor text.
C35_ViewConsistency ==
    \A c \in Clients :
        ClientQuiescent(c) =>
            DeepEq(buildJson(cli[c].nodes, cli[c].edges), JSONParse(cli[c].jsonText))

\* nothing is left to happen without a user: no packet under way in either
\* direction and no timer pending in a mounted client
SystemQuiescent ==
    \A c \in Clients :
        /\ toSrv[c] = <<>>
        /\ toCli[c] = <<>>
        /\ cli[c].phase = "mounted" =>
              /\ ~cli[c].debounceArmed
              /\ ~cli[c].widthTimer
              /\ cli[c].flagTimers = 0

\* C36: after the single edit, with timers that fire and packets that are
\* handled, the system reaches a state with no timer pending and no packet
\* under way.
C36_Quiescence == (edits = 1) ~> SystemQuiescent


\* C37: while a settle timer of a remote update is pending in a client, its
\* applying-remote flag is set: the timer of an earlier update does not
\* clear the flag inside the window of a later one.
C37_FlagHeldUntilOwnTimer ==
    \A c \in Clients :
        cli[c].phase = "mounted" /\ cli[c].flagTimers > 0 => cli[c].isRemoteUpdate


\* C38: in every client the pending ICE-candidate queue of a peer is empty
\* while a connection object for that peer exists.
C38_NoQueueBesideConnection ==
    \A c \in DOMAIN vc :
        \A p \in DOMAIN vc[c].peerConnections :
            vc[c].pendingIceCandidates[p] = <<>>


\* the packets that carry the server's permissions to a client
PermissionTypes == {"init-state", "workspace-permissions"}
\* every permission packet of the server has reached client c, and the
\* server has handled everything c sent
PermissionsDelivered(c) ==
    /\ cli[c].phase = "mounted"
    /\ c \in MemberIds(ws)
    /\ cli[c].hasReceivedInitState
    /\ cli[c].awaiting = "none"
    /\ toSrv[c] = <<>>
    /\ \A i \in DOMAIN toCli[c] : toCli[c][i].type \notin PermissionTypes

\* C39: once the permission packets of the server are delivered, a member's
\* local canEdit equals the server's canEdit for that member, and its local
\* allowCollaboratorEdits (the owner's optimistic toggle included) and owner
\* id equal the server's.
C39_PermissionViewConverges ==
    \A c \in Clients :
        PermissionsDelivered(c) =>
            /\ CliCanEdit(c, cli[c]) = CanEdit(ws, c)
            /\ cli[c].allowCollaboratorEdits = ws.allowCollaboratorEdits
            /\ cli[c].workspaceOwnerUserId = ws.ownerSocketId

\* the owner d has left, the server's last step was its disconnect, and the
\* member c it left behind has handled the workspace-permissions that makes
\* it the owner: c may edit although sharing is off
C39_Witness ==
    \E c \in Clients, d \in Clients :
        /\ c # d
        /\ cli[d].phase = "closed"
        /\ cli[d].workspaceOwnerUserId = d
        /\ ev.kind = "disconnect"
        /\ ev.sid = d
        /\ PermissionsDelivered(c)
        /\ ws.ownerSocketId = c
        /\ ~ws.allowCollaboratorEdits
        /\ CliCanEdit(c, cli[c])


\* C40: every node tagged isPrimitiveArrayItemWrapper has exactly one row,
\* and processNode returns for it a scalar, never an object or an array.
C40_WrapperHasOneRow ==
    \A i \in DOMAIN rtGraph.nodes :
        rtGraph.nodes[i].isPrimitiveArrayItemWrapper =>
            /\ Len(rtGraph.nodes[i].rows) = 1
            /\ IsPrimitive(processNode(rtGraph.nodes, rtGraph.edges, {},
                                       rtGraph.nodes[i].id).val)
====
